---------------------------- MODULE Spec2Model ----------------------------
(***************************************************************************)
(* A model of the progress engine of hs-tools: the bounded-concurrency     *)
(* Semaphore (lib/semaphore.js), the task/step registry of the CLI         *)
(* (lib/cli.js), the TTL+jitter Cache (lib/cache.js), the fetchCached      *)
(* helper (lib/utils/fetch.js), the lock file and shutdown of the CLI      *)
(* (lib/cli.js) and the live renderer (lib/ui.js).                         *)
(*                                                                         *)
(* Every component has its own specification (SemSpec and SemLive,         *)
(* RegSpec, CacheSpec, FetchSpec, LockSpec, StepsSpec, RenderSpec) over    *)
(* the shared variables; the variables of the components a specification   *)
(* does not exercise keep their initial value.                             *)
(***************************************************************************)
EXTENDS Integers, Sequences, FiniteSets, TLC

VARIABLES
    \* ---- SimpleSemaphore (semaphore.js:15-17)
    jobs,       \* this.jobs: the waiting queue of [job, resolve, reject]
    max,        \* this.max
    active,     \* this.active
    \* ---- the environment of the semaphore: the job thunks and the promises
    jobState,   \* per job thunk: "new", "queued", "running", "fulfilled",
                \*   "rejected" (job promise settled, reaction pending), "done"
    handlers,   \* per running job: the resolve/reject captured by execute()
    promise,    \* per do() call: the state of the promise it returned
    outcome,    \* per job thunk: how its own promise settled ("none" before)
    started,    \* the order in which the job thunks were invoked
    \* ---- CLI registry (cli.js:128)
    tasks,      \* this.tasks: task name -> Task, NoTask when absent
    thrown,     \* what the handler of the last registry event threw
    events,     \* number of registry events handled so far
    event,      \* the last registry event handled (NoEvent before the first)
    logged,     \* what renderer.logTask / logStep wrote for that event
    \* ---- Cache / NullCache (cache.js) and its environment
    kind,       \* the class of the cache object: "Cache" or "NullCache"
    ignore,     \* this.ignore
    cacheMap,   \* this.cacheMap: entry id -> CacheEntry, NoEntry when absent
    hasChanged, \* this.hasChanged
    cacheInfoFile, \* the index file <cacheDir>/<CACHE_FILE>
    files,      \* the payload files under cacheDir: path -> content
    clock,      \* now(): epoch seconds
    last,       \* the last operation on the cache and what it returned
    ops,        \* number of cache operations / fetchCached steps so far
    \* ---- fetchCached (utils/fetch.js)
    log,        \* the fetchCached calls made so far, in call order
    requests,   \* number of HTTP requests issued (calls of brq)
    calls,      \* per caller: its cache() or getCache() call in flight and
                \*   the await it stands at (NoCall before it calls)
    \* ---- CLI invocations on one working directory (cli.js:120-346)
    lfile,      \* whether the lock file <cwd>/.hs-tools/.lock exists
    cli,        \* per invocation: its CLI object, its timer and its console
    \* ---- calculateSteps (ui.js:395-429)
    calc,       \* the arguments of a call and what it returned
    \* ---- UIRenderer (ui.js:131-338)
    isTTY,      \* process.stdout.isTTY (colors.js:19)
    rendererName, \* this.rendererName after init(): "text" or "loader"
    frame,      \* this.frame
    output,     \* this._output: the previous frame, NoOutput before the first
    lastDraw,   \* the last draw(): the frames it compared and what it wrote
    terminal,   \* the terminal this.out writes to: cursor and visible text
    elided,     \* the steps of a task with more than maxSteps steps and the
                \* lines getOutput pushed for them
    \* ---- LockFile (lockfile.js) and its environment
    lock,       \* the file <dirname>/LOCK: its stat, NoStat when missing
    time,       \* Date.now(): epoch milliseconds
    lf          \* per process: its LockFile and where its owner stands

semVars == <<jobs, max, active, jobState, handlers, promise, outcome, started>>

regVars == <<tasks, thrown, events, event, logged>>

cacheVars ==
    <<kind, ignore, cacheMap, hasChanged, cacheInfoFile, files, clock, last, ops>>

fetchVars == <<log, requests, calls>>

cliVars == <<lfile, cli>>

calcVars == <<calc>>

uiVars == <<isTTY, rendererName, frame, output, lastDraw, terminal, elided>>

lfVars == <<lock, time, lf>>

vars == <<jobs, max, active, jobState, handlers, promise, outcome, started,
          tasks, thrown, events, event, logged,
          kind, ignore, cacheMap, hasChanged, cacheInfoFile, files, clock, last,
          ops,
          log, requests, calls, lfile, cli, calc, isTTY, rendererName, frame, output,
          lastDraw, terminal, elided,
          lock, time, lf>>

(***************************************************************************)
(* Bounds of the model.                                                    *)
(***************************************************************************)
NumJobs == 4        \* job thunks handed to do(), numbered in submission order
MaxMax == 2         \* the semaphore is constructed with max in 1..MaxMax
MaxEvents == 3      \* registry events emitted by one command
MaxOps == 3         \* direct cache operations (cache, getCache, tampering)
MaxClock == 4       \* the clock runs from 0 to MaxClock seconds
MaxTtl == 2         \* timeouts passed to cache() are in 0..MaxTtl seconds
RandomSteps == 4    \* Math.random() yields k / RandomSteps, k < RandomSteps
MaxCalls == 2       \* fetchCached calls
MaxOut == 2         \* values a command emits with `out`
MaxTicks == 2       \* ticks of the redraw timer of one invocation
MaxCount == 10      \* done, running and waiting steps are in 0..MaxCount
MaxFrames == 2      \* calls of UIRenderer.draw
MaxSeconds == 5     \* the LockFile clock runs for MaxSeconds seconds
MaxSteps == 10      \* a task with elided steps has 9..MaxSteps steps
MaxCallers == 3     \* callers whose cache() / getCache() calls may overlap

JobIds == 1..NumJobs

(***************************************************************************)
(* SimpleSemaphore                                                         *)
(***************************************************************************)

\* Job thunks are promise-returning (async) functions, as at every call of
\* do() in the repository: job j fulfils with the value <<"res", j>> or
\* rejects with the error <<"err", j>>; a thunk never throws synchronously.
Pending == <<"pending">>
ResultOf(j) == <<"res", j>>
ErrorOf(j) == <<"err", j>>

NoHandlers == [resolve |-> 0, reject |-> 0]

\* constructor(max): assert(max > 0); jobs = []; active = 0.
SemInit ==
    /\ max \in 1..MaxMax
    /\ max > 0
    /\ jobs = <<>>
    /\ active = 0
    /\ jobState = [j \in JobIds |-> "new"]
    /\ handlers = [j \in JobIds |-> NoHandlers]
    /\ promise = [j \in JobIds |-> Pending]
    /\ outcome = [j \in JobIds |-> "none"]
    /\ started = <<>>

\* A plausible slip in execute(): the guard tests "more than max".
executeOffByOne(js, act, mx) ==
    IF act > mx
      THEN [jobs |-> js, active |-> act, run |-> <<>>]
      ELSE [jobs |-> Tail(js), active |-> act + 1, run |-> <<Head(js)>>]

\* A plausible slip in execute(): jobs.pop() instead of jobs.shift().
executeLifo(js, act, mx) ==
    IF act = mx
      THEN [jobs |-> js, active |-> act, run |-> <<>>]
      ELSE [jobs |-> SubSeq(js, 1, Len(js) - 1), active |-> act + 1,
            run |-> <<js[Len(js)]>>]

\* execute(): returns when active === max; otherwise active++ and the head
\* of the queue is shifted off and its thunk invoked.  The result carries
\* the new queue, the new counter and the entry that was started (if any).
execute(js, act, mx) ==
    IF act = mx
      THEN [jobs |-> js, active |-> act, run |-> <<>>]
      ELSE [jobs |-> Tail(js), active |-> act + 1, run |-> <<Head(js)>>]

\* The effect of one execute() call on the state of the thunks: the started
\* entry's thunk is invoked (job()) and its resolve/reject are captured by
\* the reactions attached with then/catch.
Invoke(r, st) ==
    IF r.run = <<>> THEN st
    ELSE [st EXCEPT ![r.run[1].job] = "running"]

Capture(r, h) ==
    IF r.run = <<>> THEN h
    ELSE [h EXCEPT ![r.run[1].job] =
            [resolve |-> r.run[1].resolve, reject |-> r.run[1].reject]]

Record(r, s) ==
    IF r.run = <<>> THEN s ELSE Append(s, r.run[1].job)

\* do(job): new Promise((resolve, reject) => { jobs.push([job, resolve,
\* reject]); execute(); }).  The promise created by the call for job j is
\* promise j.
do(j) ==
    /\ jobState[j] = "new"
    /\ \A i \in JobIds : i < j => jobState[i] # "new"
    /\ LET pushed == Append(jobs, [job |-> j, resolve |-> j, reject |-> j])
           r == execute(pushed, active, max)
       IN /\ jobs' = r.jobs
          /\ active' = r.active
          /\ jobState' = Invoke(r, [jobState EXCEPT ![j] = "queued"])
          /\ handlers' = Capture(r, handlers)
          /\ started' = Record(r, started)
    /\ UNCHANGED <<max, promise, outcome>>

\* The promise returned by a running job's thunk settles (the job finishes
\* its work); the reaction attached by execute() runs in a later microtask.
Settle(j, how) ==
    /\ jobState[j] = "running"
    /\ jobState' = [jobState EXCEPT ![j] = how]
    /\ outcome' = [outcome EXCEPT ![j] = how]
    /\ UNCHANGED <<jobs, max, active, handlers, promise, started>>

\* A plausible slip: the reaction forgets to drain the queue.
OnFulfilledNoDrain(j) ==
    /\ jobState[j] = "fulfilled"
    /\ promise' = [promise EXCEPT ![handlers[j].resolve] = ResultOf(j)]
    /\ active' = active - 1
    /\ jobState' = [jobState EXCEPT ![j] = "done"]
    /\ UNCHANGED <<jobs, max, handlers, outcome, started>>

\* .then((res) => { resolve(res); active--; if (jobs.length !== 0)
\* execute(); })
OnFulfilled(j) ==
    /\ jobState[j] = "fulfilled"
    /\ promise' = [promise EXCEPT ![handlers[j].resolve] = ResultOf(j)]
    /\ LET r == IF jobs # <<>> THEN execute(jobs, active - 1, max)
                ELSE [jobs |-> jobs, active |-> active - 1, run |-> <<>>]
       IN /\ jobs' = r.jobs
          /\ active' = r.active
          /\ jobState' = Invoke(r, [jobState EXCEPT ![j] = "done"])
          /\ handlers' = Capture(r, handlers)
          /\ started' = Record(r, started)
    /\ UNCHANGED <<max, outcome>>

\* A plausible slip: the catch reaction does not give the slot back.
OnRejectedNoRelease(j) ==
    /\ jobState[j] = "rejected"
    /\ promise' = [promise EXCEPT ![handlers[j].reject] = ErrorOf(j)]
    /\ LET r == IF jobs # <<>> THEN execute(jobs, active, max)
                ELSE [jobs |-> jobs, active |-> active, run |-> <<>>]
       IN /\ jobs' = r.jobs
          /\ active' = r.active
          /\ jobState' = Invoke(r, [jobState EXCEPT ![j] = "done"])
          /\ handlers' = Capture(r, handlers)
          /\ started' = Record(r, started)
    /\ UNCHANGED <<max, outcome>>

\* .catch((e) => { reject(e); active--; if (jobs.length !== 0) execute(); })
OnRejected(j) ==
    /\ jobState[j] = "rejected"
    /\ promise' = [promise EXCEPT ![handlers[j].reject] = ErrorOf(j)]
    /\ LET r == IF jobs # <<>> THEN execute(jobs, active - 1, max)
                ELSE [jobs |-> jobs, active |-> active - 1, run |-> <<>>]
       IN /\ jobs' = r.jobs
          /\ active' = r.active
          /\ jobState' = Invoke(r, [jobState EXCEPT ![j] = "done"])
          /\ handlers' = Capture(r, handlers)
          /\ started' = Record(r, started)
    /\ UNCHANGED <<max, outcome>>


(***************************************************************************)
(* Task/step registry of the CLI                                           *)
(***************************************************************************)
TaskNames == {"t1", "t2"}
StepNames == {"s1", "s2"}

\* const {STOPPED, RUNNING, FAILED, SKIPPED, DONE} = STATUS;
STOPPED == "Stopped"
RUNNING == "Running"
FAILED == "Failed"
SKIPPED == "Skipped"
DONE == "Done"
statusByID == {STOPPED, RUNNING, FAILED, SKIPPED, DONE}

\* An argument that was not passed (undefined); "" is a message that was.
Undefined == "<undefined>"
Messages == {Undefined, "", "msg"}

NoTask == [absent |-> TRUE]
NoStep == [absent |-> TRUE]

\* message || ''
OrEmpty(message) == IF message = Undefined THEN "" ELSE message

\* new Step(name, status, message)
Step(status, message) == [status |-> status, message |-> OrEmpty(message)]

\* new Task(name, message): no steps, all counters 0, status STOPPED.
Task(message) ==
    [message |-> OrEmpty(message),
     steps |-> [n \in StepNames |-> NoStep],
     stopped |-> 0, running |-> 0, failed |-> 0, skipped |-> 0, done |-> 0,
     status |-> STOPPED]

\* A plausible slip in changeStat: the FAILED case is missing.
changeStatNoFailed(task, status, n) ==
    CASE status = STOPPED -> [task EXCEPT !.stopped = @ + n]
      [] status = RUNNING -> [task EXCEPT !.running = @ + n]
      [] status = FAILED -> task
      [] status = SKIPPED -> [task EXCEPT !.skipped = @ + n]
      [] status = DONE -> [task EXCEPT !.done = @ + n]

\* A plausible slip in changeStat: no break after the SKIPPED case.
changeStatFallsThrough(task, status, n) ==
    CASE status = STOPPED -> [task EXCEPT !.stopped = @ + n]
      [] status = RUNNING -> [task EXCEPT !.running = @ + n]
      [] status = FAILED -> [task EXCEPT !.failed = @ + n]
      [] status = SKIPPED -> [task EXCEPT !.skipped = @ + n, !.done = @ + n]
      [] status = DONE -> [task EXCEPT !.done = @ + n]

\* Task.changeStat(status, n); the default case (an unknown status) throws
\* and is not reachable with the statuses of statusByID.
changeStat(task, status, n) ==
    CASE status = STOPPED -> [task EXCEPT !.stopped = @ + n]
      [] status = RUNNING -> [task EXCEPT !.running = @ + n]
      [] status = FAILED -> [task EXCEPT !.failed = @ + n]
      [] status = SKIPPED -> [task EXCEPT !.skipped = @ + n]
      [] status = DONE -> [task EXCEPT !.done = @ + n]

\* A plausible slip in addStep: an existing step takes `message || ''`.
addStepOverwrites(task, name, message) ==
    IF task.steps[name] # NoStep
      THEN [task EXCEPT !.steps[name].message = OrEmpty(message)]
      ELSE [task EXCEPT !.steps[name] = Step(STOPPED, message),
                        !.stopped = @ + 1]

\* Task.addStep(name, message): the task after the call.
addStep(task, name, message) ==
    IF task.steps[name] # NoStep
      THEN IF message # Undefined
             THEN [task EXCEPT !.steps[name].message = message]
             ELSE task
      ELSE [task EXCEPT !.steps[name] = Step(STOPPED, message),
                        !.stopped = @ + 1]

\* A plausible slip in setStepStatus: the task's status follows its step.
setStepStatusDerives(task, name, status, message) ==
    LET added == IF task.steps[name] = NoStep
                   THEN addStep(task, name, message) ELSE task
        oldStat == added.steps[name].status
    IN IF status = STOPPED /\ message # Undefined
         THEN [added EXCEPT !.steps[name].message = message]
         ELSE LET set == [added EXCEPT
                            !.status = status,
                            !.steps[name].status = status,
                            !.steps[name].message =
                                IF message # Undefined THEN message ELSE @]
              IN changeStat(changeStat(set, oldStat, -1), status, 1)

\* A plausible slip in setStepStatus: the old counter is not decremented.
setStepStatusNoDecrement(task, name, status, message) ==
    LET added == IF task.steps[name] = NoStep
                   THEN addStep(task, name, message) ELSE task
    IN IF status = STOPPED /\ message # Undefined
         THEN [added EXCEPT !.steps[name].message = message]
         ELSE LET set == [added EXCEPT
                            !.steps[name].status = status,
                            !.steps[name].message =
                                IF message # Undefined THEN message ELSE @]
              IN changeStat(set, status, 1)

\* A plausible slip in setStepStatus: Stopped with a message is no special
\* case.
setStepStatusNoSpecialCase(task, name, status, message) ==
    LET added == IF task.steps[name] = NoStep
                   THEN addStep(task, name, message) ELSE task
        oldStat == added.steps[name].status
        set == [added EXCEPT
                  !.steps[name].status = status,
                  !.steps[name].message =
                      IF message # Undefined THEN message ELSE @]
    IN changeStat(changeStat(set, oldStat, -1), status, 1)

\* Task.setStepStatus(name, status, message): the task after the call.
setStepStatus(task, name, status, message) ==
    LET added == IF task.steps[name] = NoStep
                   THEN addStep(task, name, message) ELSE task
        oldStat == added.steps[name].status
    IN IF status = STOPPED /\ message # Undefined
         THEN [added EXCEPT !.steps[name].message = message]
         ELSE LET set == [added EXCEPT
                            !.steps[name].status = status,
                            !.steps[name].message =
                                IF message # Undefined THEN message ELSE @]
              IN changeStat(changeStat(set, oldStat, -1), status, 1)

\* An emitted event: its name (with the status of a `task <Status>` or
\* `step <Status>` event apart) and its arguments; a task event has no step.
NoEvent == [absent |-> TRUE]
NoStatus == "<no status>"
NoName == "<no name>"
Event(type, status, tname, name, message) ==
    [type |-> type, status |-> status, tname |-> tname, name |-> name,
     message |-> message]

\* const COLORS = {RED: 31, GREEN: 32, YELLOW: 33}
RED == 31
GREEN == 32
YELLOW == 33

\* One line written to this.out: color(text) + '\n'; color 0 is t => t.
Line(text, color) == [text |-> text, color |-> color]

\* TextRenderer.logTask(name, status): what it writes.  A falsy status
\* (none, '' or STOPPED) and every value that is not one of the four cases
\* (a message) write nothing.
logTask(name, status) ==
    CASE status = RUNNING ->
           <<Line("Task \"" \o name \o "\" has started..", 0)>>
      [] status = FAILED ->
           <<Line("Task \"" \o name \o "\" has failed.", RED)>>
      [] status = SKIPPED ->
           <<Line("Task \"" \o name \o "\" was skipped.", YELLOW)>>
      [] status = DONE ->
           <<Line("Task \"" \o name \o "\" has finished.", GREEN)>>
      [] OTHER -> <<>>

\* TextRenderer.logStep(tname, sname, status)
logStep(tname, sname, status) ==
    CASE status = RUNNING ->
           <<Line("Step \"" \o tname \o ":" \o sname \o "\" has started..", 0)>>
      [] status = FAILED ->
           <<Line("Step \"" \o tname \o ":" \o sname \o "\" has failed.", RED)>>
      [] status = SKIPPED ->
           <<Line("Step \"" \o tname \o ":" \o sname \o "\" was skipped.", YELLOW)>>
      [] status = DONE ->
           <<Line("Step \"" \o tname \o ":" \o sname \o "\" has finished.", GREEN)>>
      [] OTHER -> <<>>

\* this.renderer.logTask(...) / logStep(...): the methods of TextRenderer,
\* or the empty ones UIRenderer inherits from Renderer.
Log(lines) == logged' = IF rendererName = "text" THEN lines ELSE <<>>

RegInit ==
    /\ tasks = [t \in TaskNames |-> NoTask]
    /\ thrown = "none"
    /\ events = 0
    /\ event = NoEvent
    /\ logged = <<>>

Handled(e) ==
    /\ events < MaxEvents
    /\ events' = events + 1
    /\ event' = e

\* command.on('task', (name, message) => ...)
OnTask(name, message) ==
    /\ Handled(Event("task", NoStatus, name, NoName, message))
    /\ thrown' = "none"
    /\ Log(IF tasks[name] # NoTask THEN <<>> ELSE logTask(name, message))
    /\ tasks' = IF tasks[name] # NoTask /\ message # Undefined
                  THEN [tasks EXCEPT ![name].message = message]
                ELSE IF tasks[name] # NoTask
                  THEN tasks
                ELSE [tasks EXCEPT ![name] = Task(message)]

\* command.on(`task ${statname}`, (name, message) => ...)
OnTaskStatus(status, name, message) ==
    /\ Handled(Event("task", status, name, NoName, message))
    /\ thrown' = "none"
    /\ Log(logTask(name, status))
    /\ LET task == IF tasks[name] = NoTask THEN Task(message) ELSE tasks[name]
       IN tasks' = [tasks EXCEPT ![name] =
                       [task EXCEPT !.status = status,
                                    !.message = IF message # Undefined
                                                  THEN message ELSE @]]

\* command.on('step', (tname, name, message) => ...): tasks.get(tname) is
\* undefined for an unknown task and task.addStep then throws a TypeError.
OnStep(tname, name, message) ==
    /\ Handled(Event("step", NoStatus, tname, name, message))
    /\ IF tasks[tname] = NoTask
         THEN /\ thrown' = "TypeError"
              /\ tasks' = tasks
              /\ Log(<<>>)
         ELSE /\ thrown' = "none"
              /\ Log(logStep(tname, name, message))
              /\ tasks' = [tasks EXCEPT ![tname] = addStep(@, name, message)]

\* command.on(`step ${statname}`, (tname, name, message) => ...)
OnStepStatus(status, tname, name, message) ==
    /\ Handled(Event("step", status, tname, name, message))
    /\ IF tasks[tname] = NoTask
         THEN /\ thrown' = "TypeError"
              /\ tasks' = tasks
              /\ Log(<<>>)
         ELSE /\ thrown' = "none"
              /\ Log(logStep(tname, name, status))
              /\ tasks' = [tasks EXCEPT ![tname] =
                              setStepStatus(@, name, status, message)]

(***************************************************************************)
(* Cache, NullCache and CacheEntry                                         *)
(***************************************************************************)
\* Payloads are compared by content: what fs.writeFile stored is what
\* fs.readFile yields.
CacheNames == {"a"}
FileNames == {"b", "c"}
Data == {"d1", "d2"}

Null == "<null>"
NoEntry == [absent |-> TRUE]
NoFile == "<no file>"

\* CacheEntry.path / CacheEntry.id: `${this.name}/${this.file}`
path(name, file) == name \o "/" \o file

Ids == {path(name, file) : name \in CacheNames, file \in FileNames}

\* new CacheEntry({name, file, createdAt, timeoutAt})
CacheEntry(createdAt, timeoutAt) ==
    [createdAt |-> createdAt, timeoutAt |-> timeoutAt]

\* A plausible slip in hasExpired: no special case for timeoutAt = createdAt.
hasExpiredNoZero(entry, now, k) ==
    LET diff == entry.timeoutAt - entry.createdAt
        rand == (diff * k) \div RandomSteps
    IN entry.timeoutAt + rand <= now

\* A plausible slip in hasExpired: the jitter is added to createdAt.
hasExpiredFromCreation(entry, now, k) ==
    IF entry.timeoutAt = entry.createdAt THEN FALSE
    ELSE LET diff == entry.timeoutAt - entry.createdAt
             rand == (diff * k) \div RandomSteps
         IN entry.createdAt + rand <= now

\* CacheEntry.hasExpired, with Math.random() = k / RandomSteps:
\* rand = Math.floor(diff * Math.random()); timeoutAt + rand <= now().
hasExpired(entry, now, k) ==
    IF entry.timeoutAt = entry.createdAt THEN FALSE
    ELSE LET diff == entry.timeoutAt - entry.createdAt
             rand == (diff * k) \div RandomSteps
         IN entry.timeoutAt + rand <= now

\* The cache object after a call, with what the call returned.
CacheState(ret, why, map, fs, changed) ==
    [ret |-> ret, why |-> why, map |-> map, fs |-> fs, changed |-> changed]

\* A plausible slip in cache(): timeoutAt is the timeout itself.
cacheAbsoluteTimeout(name, file, data, timeout) ==
    IF ignore
      THEN CacheState(FALSE, "ignored", cacheMap, files, hasChanged)
      ELSE CacheState(TRUE, "written",
             [cacheMap EXCEPT ![path(name, file)] = CacheEntry(clock, timeout)],
             [files EXCEPT ![path(name, file)] = data],
             TRUE)

\* Cache.cache(name, file, data, timeout)
cache(name, file, data, timeout) ==
    IF ignore
      THEN CacheState(FALSE, "ignored", cacheMap, files, hasChanged)
      ELSE CacheState(TRUE, "written",
             [cacheMap EXCEPT ![path(name, file)] =
                 CacheEntry(clock, clock + timeout)],
             [files EXCEPT ![path(name, file)] = data],
             TRUE)

\* A plausible slip in getCache: a purge leaves hasChanged as it is.
getCacheNoDirty(name, file, k) ==
    LET id == path(name, file)
        entry == cacheMap[id]
        exists == files[id] # NoFile
    IN IF ignore
         THEN CacheState(Null, "ignored", cacheMap, files, hasChanged)
       ELSE IF entry = NoEntry
         THEN CacheState(Null, "absent", cacheMap, files, hasChanged)
       ELSE IF ~exists
         THEN CacheState(Null, "missing",
                [cacheMap EXCEPT ![id] = NoEntry], files, hasChanged)
       ELSE IF hasExpired(entry, clock, k)
         THEN CacheState(Null, "expired",
                [cacheMap EXCEPT ![id] = NoEntry],
                [files EXCEPT ![id] = NoFile], hasChanged)
       ELSE CacheState(files[id], "hit", cacheMap, files, hasChanged)

\* Cache.getCache(name, file); k is the draw of Math.random() in hasExpired.
getCache(name, file, k) ==
    LET id == path(name, file)
        entry == cacheMap[id]
        exists == files[id] # NoFile
    IN IF ignore
         THEN CacheState(Null, "ignored", cacheMap, files, hasChanged)
       ELSE IF entry = NoEntry
         THEN CacheState(Null, "absent", cacheMap, files, hasChanged)
       ELSE IF ~exists
         THEN CacheState(Null, "missing",
                [cacheMap EXCEPT ![id] = NoEntry], files, TRUE)
       ELSE IF hasExpired(entry, clock, k)
         THEN CacheState(Null, "expired",
                [cacheMap EXCEPT ![id] = NoEntry],
                [files EXCEPT ![id] = NoFile], TRUE)
       ELSE CacheState(files[id], "hit", cacheMap, files, hasChanged)

\* NullCache.cache(name, file, data, timeout): return true.
nullCache(name, file, data, timeout) ==
    CacheState(TRUE, "null cache", cacheMap, files, hasChanged)

\* NullCache.getCache(name, file): return null.
nullGetCache(name, file) ==
    CacheState(Null, "null cache", cacheMap, files, hasChanged)

\* cache.cache(...) and cache.getCache(...) on the object at hand.
callCache(name, file, data, timeout) ==
    IF kind = "NullCache" THEN nullCache(name, file, data, timeout)
    ELSE cache(name, file, data, timeout)

callGetCache(name, file, k) ==
    IF kind = "NullCache" THEN nullGetCache(name, file)
    ELSE getCache(name, file, k)

\* cache instanceof NullCache: class Cache does not extend NullCache.
instanceofNullCache == kind = "NullCache"

NoOp == [op |-> "none", name |-> "", file |-> "", data |-> Null,
         timeout |-> 0, ret |-> Null, why |-> "", clock |-> 0,
         entry |-> NoEntry, existed |-> FALSE]

\* A Cache (enabled or with ignore set) or a NullCache, after init(),
\* ensure() and open() without an index file.
CacheInit ==
    /\ kind \in {"Cache", "NullCache"}
    /\ ignore \in IF kind = "Cache" THEN BOOLEAN ELSE {FALSE}
    /\ cacheMap = [id \in Ids |-> NoEntry]
    /\ hasChanged = FALSE
    /\ cacheInfoFile = [state |-> "absent"]
    /\ files = [id \in Ids |-> NoFile]
    /\ clock = 0
    /\ last = NoOp
    /\ ops = 0

Install(c) ==
    /\ cacheMap' = c.map
    /\ files' = c.fs
    /\ hasChanged' = c.changed

Seen(op, name, file, data, timeout, c) ==
    last' = [op |-> op, name |-> name, file |-> file, data |-> data,
             timeout |-> timeout, ret |-> c.ret, why |-> c.why,
             clock |-> clock, entry |-> cacheMap[path(name, file)],
             existed |-> files[path(name, file)] # NoFile]

\* await cache.cache(name, file, data, timeout)
Put(name, file, data, timeout) ==
    /\ ops < MaxOps
    /\ ops' = ops + 1
    /\ LET c == callCache(name, file, data, timeout)
       IN Install(c) /\ Seen("cache", name, file, data, timeout, c)
    /\ UNCHANGED <<kind, ignore, cacheInfoFile, clock>>

\* await cache.getCache(name, file)
Get(name, file, k) ==
    /\ ops < MaxOps
    /\ ops' = ops + 1
    /\ LET c == callGetCache(name, file, k)
       IN Install(c) /\ Seen("getCache", name, file, Null, 0, c)
    /\ UNCHANGED <<kind, ignore, cacheInfoFile, clock>>

\* Something outside the program removes a payload file.
Tamper(name, file) ==
    /\ ops < MaxOps
    /\ ops' = ops + 1
    /\ files[path(name, file)] # NoFile
    /\ files' = [files EXCEPT ![path(name, file)] = NoFile]
    /\ last' = [NoOp EXCEPT !.op = "tamper", !.name = name, !.file = file,
                            !.clock = clock]
    /\ UNCHANGED <<kind, ignore, cacheInfoFile, cacheMap, hasChanged, clock>>

\* Time passes.
Tick(t) ==
    /\ t > clock
    /\ clock' = t
    /\ last' = [NoOp EXCEPT !.op = "tick", !.clock = t]
    /\ UNCHANGED <<kind, ignore, cacheInfoFile, cacheMap, hasChanged, files,
                   ops>>

(***************************************************************************)
(* cache() and getCache() await by await (cache.js:432-490)                *)
(***************************************************************************)
\* The callers whose calls on one Cache may overlap, in the order in which
\* they call.
Callers == 1..MaxCallers

\* A file that fs.writeFile has opened (created or truncated) and not yet
\* written.
Truncated == ""

\* A call of cache() or getCache(): its arguments, the await it stands at
\* (pc), the entry it built or found, what fs.exists told it, what it
\* returned, the callers whose calls had returned when it was made, and the
\* time of its return.
AsyncCall(op, pc, name, file, data, entry) ==
    [op |-> op, pc |-> pc, name |-> name, file |-> file, data |-> data,
     entry |-> entry, exists |-> FALSE, ret |-> Null,
     after |-> {d \in Callers : calls[d].pc \in {"returned", "ENOENT"}},
     endClock |-> 0]

NoCall ==
    [op |-> "none", pc |-> "none", name |-> "", file |-> "", data |-> Null,
     entry |-> NoEntry, exists |-> FALSE, ret |-> Null, after |-> {},
     endClock |-> 0]

\* The call returns ret (pc "returned") or rejects (pc "ENOENT").
Settled(call, pc, ret) ==
    [call EXCEPT !.pc = pc, !.ret = ret, !.endClock = clock]

\* Callers call one after another; each makes one call.
MayCall(c) ==
    /\ calls[c] = NoCall
    /\ \A d \in Callers : d < c => calls[d] # NoCall

\* cache(name, file, data, timeout) up to await fs.exists(dirname):
\* return false when ignore is set, else the entry is built from now().
cacheCall(c, name, file, data, timeout) ==
    /\ MayCall(c)
    /\ LET call == AsyncCall("cache", "exists", name, file, data,
                             CacheEntry(clock, clock + timeout))
       IN calls' = [calls EXCEPT ![c] =
                      IF ignore THEN Settled(call, "returned", FALSE)
                      ELSE call]
    /\ UNCHANGED <<cacheMap, files, hasChanged>>

\* cache() after fs.exists / fs.mkdirp: this.cacheMap.set(entry.id, entry),
\* this.hasChanged = true and fs.writeFile(dest, data) is called.
cacheSet(c) ==
    /\ calls[c].op = "cache" /\ calls[c].pc = "exists"
    /\ cacheMap' = [cacheMap EXCEPT ![path(calls[c].name, calls[c].file)] =
                       calls[c].entry]
    /\ hasChanged' = TRUE
    /\ calls' = [calls EXCEPT ![c].pc = "writeFile"]
    /\ UNCHANGED files

\* fs.writeFile(dest, data) opens dest with flag 'w': the file is created
\* or truncated.
cacheOpen(c) ==
    /\ calls[c].op = "cache" /\ calls[c].pc = "writeFile"
    /\ files' = [files EXCEPT ![path(calls[c].name, calls[c].file)] =
                    Truncated]
    /\ calls' = [calls EXCEPT ![c].pc = "write"]
    /\ UNCHANGED <<cacheMap, hasChanged>>

\* fs.writeFile writes data and closes; cache() returns true.
cacheWrite(c) ==
    /\ calls[c].op = "cache" /\ calls[c].pc = "write"
    /\ files' = [files EXCEPT ![path(calls[c].name, calls[c].file)] =
                    calls[c].data]
    /\ calls' = [calls EXCEPT ![c] = Settled(calls[c], "returned", TRUE)]
    /\ UNCHANGED <<cacheMap, hasChanged>>

\* getCache(name, file) up to await fs.exists(fileLoc): return null when
\* ignore is set or the map has no entry, else the entry is taken.
getCacheCall(c, name, file) ==
    /\ MayCall(c)
    /\ LET entry == cacheMap[path(name, file)]
           call == AsyncCall("getCache", "exists", name, file, Null, entry)
       IN calls' = [calls EXCEPT ![c] =
                      IF ignore \/ entry = NoEntry
                        THEN Settled(call, "returned", Null)
                        ELSE call]
    /\ UNCHANGED <<cacheMap, files, hasChanged>>

\* fs.exists(fileLoc) looks at the file.
getCacheExists(c) ==
    /\ calls[c].op = "getCache" /\ calls[c].pc = "exists"
    /\ calls' = [calls EXCEPT
                   ![c].exists = files[path(calls[c].name, calls[c].file)]
                                   # NoFile,
                   ![c].pc = "checked"]
    /\ UNCHANGED <<cacheMap, files, hasChanged>>

\* getCache() after await fs.exists: a missing file or an expired entry
\* drops the entry (and the file is unlinked), else fs.readFile is called.
\* k is the draw of Math.random() in hasExpired.
getCacheChecked(c, k) ==
    /\ calls[c].op = "getCache" /\ calls[c].pc = "checked"
    /\ LET id == path(calls[c].name, calls[c].file)
       IN IF ~calls[c].exists
            THEN /\ hasChanged' = TRUE
                 /\ cacheMap' = [cacheMap EXCEPT ![id] = NoEntry]
                 /\ calls' = [calls EXCEPT
                                ![c] = Settled(calls[c], "returned", Null)]
          ELSE IF hasExpired(calls[c].entry, clock, k)
            THEN /\ hasChanged' = TRUE
                 /\ cacheMap' = [cacheMap EXCEPT ![id] = NoEntry]
                 /\ calls' = [calls EXCEPT ![c].pc = "unlink"]
          ELSE /\ calls' = [calls EXCEPT ![c].pc = "readFile"]
               /\ UNCHANGED <<cacheMap, hasChanged>>
    /\ UNCHANGED files

\* fs.unlink(fileLoc): the file is removed and getCache() returns null, or
\* it is gone already and the call rejects with ENOENT.
getCacheUnlink(c) ==
    /\ calls[c].op = "getCache" /\ calls[c].pc = "unlink"
    /\ LET id == path(calls[c].name, calls[c].file)
       IN /\ files' = [files EXCEPT ![id] = NoFile]
          /\ calls' = [calls EXCEPT ![c] =
                         IF files[id] = NoFile
                           THEN Settled(calls[c], "ENOENT", Null)
                           ELSE Settled(calls[c], "returned", Null)]
    /\ UNCHANGED <<cacheMap, hasChanged>>

\* fs.readFile(fileLoc): getCache() returns what the file holds, or
\* rejects with ENOENT when the file is gone.
getCacheReadFile(c) ==
    /\ calls[c].op = "getCache" /\ calls[c].pc = "readFile"
    /\ LET id == path(calls[c].name, calls[c].file)
       IN calls' = [calls EXCEPT ![c] =
                      IF files[id] = NoFile
                        THEN Settled(calls[c], "ENOENT", Null)
                        ELSE Settled(calls[c], "returned", files[id])]
    /\ UNCHANGED <<cacheMap, files, hasChanged>>

\* A Cache (enabled or with ignore set) after init(), ensure() and open()
\* without an index file, and no call made yet.
OverlapInit ==
    /\ kind = "Cache"
    /\ ignore \in BOOLEAN
    /\ cacheMap = [id \in Ids |-> NoEntry]
    /\ hasChanged = FALSE
    /\ cacheInfoFile = [state |-> "absent"]
    /\ files = [id \in Ids |-> NoFile]
    /\ clock = 0
    /\ last = NoOp
    /\ ops = 0

\* The index file cacheInfoFile as fs sees it: its state is "absent",
\* "unreadable" (present, but reading fails), "corrupt" (present, but not a
\* JSON document) or "json", and then it is the document below.
Info(v, es) == [state |-> "json", version |-> v, entries |-> es]

\* this.version
thisVersion == 0

\* CacheEntry.toJSON(), as JSON.stringify calls it on the entry of a key.
toJSON(name, file, entry) ==
    [name |-> name, file |-> file,
     createdAt |-> entry.createdAt, timeoutAt |-> entry.timeoutAt]

\* CacheEntry.fromJSON(json); the four type assertions hold for what
\* toJSON wrote.
fromJSON(json) == CacheEntry(json.createdAt, json.timeoutAt)

\* Array.from(this.cacheMap.entries()) as written to the file: the pairs
\* [key, entry.toJSON()].
cacheEntries(map) ==
    {<<path(p[1], p[2]), toJSON(p[1], p[2], map[path(p[1], p[2])])>> :
        p \in {q \in CacheNames \X FileNames : map[path(q[1], q[2])] # NoEntry}}

\* Cache.readCacheInfo() on a Cache whose cacheMap is map: false without a
\* file or with another version; fs.readJSON rejects for a file that cannot
\* be read (EACCES) or parsed (SyntaxError), and nothing catches it.
readCacheInfo(map, info) ==
    CASE info.state = "absent" ->
           CacheState(FALSE, "absent", map, files, hasChanged)
      [] info.state = "unreadable" ->
           CacheState(FALSE, "EACCES", map, files, hasChanged)
      [] info.state = "corrupt" ->
           CacheState(FALSE, "SyntaxError", map, files, hasChanged)
      [] info.state = "json" ->
           IF info.version # thisVersion
             THEN CacheState(FALSE, "version", map, files, hasChanged)
             ELSE CacheState(TRUE, "loaded",
                    [id \in Ids |->
                       IF \E e \in info.entries : e[1] = id
                         THEN fromJSON((CHOOSE e \in info.entries :
                                          e[1] = id)[2])
                         ELSE map[id]],
                    files, hasChanged)

\* A plausible slip in writeCacheInfo: the hasChanged test is missing.
writeCacheInfoAlways(map, changed) ==
    CacheState(TRUE, "written", map, files, FALSE)

\* Cache.writeCacheInfo(): false when nothing changed; else the index is
\* written (see Close) and hasChanged is reset.
writeCacheInfo(map, changed) ==
    IF ~changed
      THEN CacheState(FALSE, "clean", map, files, changed)
      ELSE CacheState(TRUE, "written", map, files, FALSE)

\* The run got past await cache.open() (an open() that rejects ends the run
\* with exit code 2, bin/hs-tools:180-183).
Opened == last.op # "none" /\ last.why \notin {"EACCES", "SyntaxError"}

\* A new process: new Cache(options), init(), ensure() and await
\* cache.open() (bin/hs-tools:68-87) on the index file a run before left.
Open ==
    /\ LET c == readCacheInfo([id \in Ids |-> NoEntry], cacheInfoFile)
       IN /\ cacheMap' = c.map
          /\ hasChanged' = FALSE
          /\ last' = [NoOp EXCEPT !.op = "open", !.ret = c.ret,
                                  !.why = c.why, !.clock = clock]
    /\ UNCHANGED <<kind, ignore, cacheInfoFile, files, clock, ops>>

\* await cache.close(): writeCacheInfo() with fs.writeJSON of
\* {version, entries}.
Close ==
    /\ Opened
    /\ LET c == writeCacheInfo(cacheMap, hasChanged)
       IN /\ cacheInfoFile' = IF c.ret
                                THEN Info(thisVersion, cacheEntries(cacheMap))
                                ELSE cacheInfoFile
          /\ hasChanged' = c.changed
          /\ last' = [NoOp EXCEPT !.op = "close", !.ret = c.ret,
                                  !.why = c.why, !.clock = clock]
    /\ UNCHANGED <<kind, ignore, cacheMap, files, clock, ops>>

\* The index files a run can find: none, one it may not read, one cut
\* short, one of another version and one a run before wrote at time 0.
IndexFiles ==
    {[state |-> "absent"], [state |-> "unreadable"], [state |-> "corrupt"],
     Info(thisVersion + 1, cacheEntries([id \in Ids |-> NoEntry])),
     Info(thisVersion,
          cacheEntries([id \in Ids |->
              IF id = path("a", "b") THEN CacheEntry(0, 1) ELSE NoEntry]))}

\* A Cache just constructed in a directory that holds an index file and
\* the payload files the index names.
IndexInit ==
    /\ kind = "Cache"
    /\ ignore \in BOOLEAN
    /\ cacheInfoFile \in IndexFiles
    /\ cacheMap = [id \in Ids |-> NoEntry]
    /\ hasChanged = FALSE
    /\ files = [id \in Ids |->
                  IF /\ cacheInfoFile.state = "json"
                     /\ \E e \in cacheInfoFile.entries : e[1] = id
                    THEN "d1" ELSE NoFile]
    /\ clock = 0
    /\ last = NoOp
    /\ ops = 0

(***************************************************************************)
(* fetch and fetchCached                                                   *)
(***************************************************************************)
\* The JSON documents an upstream answers with.
JsonValues == {[merged_at |-> FALSE], [merged_at |-> TRUE]}

\* JSON.stringify(json, null, 2)
stringify(json) ==
    IF json.merged_at THEN "{\n  \"merged_at\": true\n}"
    ELSE "{\n  \"merged_at\": false\n}"

SyntaxError == [error |-> "SyntaxError"]

\* The value null where a JSON document is expected.
JsonNull == [null |-> TRUE]

\* JSON.parse(text) / res.json(): the document, or a SyntaxError thrown.
parse(text) ==
    IF \E json \in JsonValues : stringify(json) = text
      THEN CHOOSE json \in JsonValues : stringify(json) = text
      ELSE SyntaxError

Bodies == {stringify(json) : json \in JsonValues} \cup {"<html>"}

\* What brq does with a request: it throws, or it yields a response with a
\* status code and a body (a JSON document or something else).
TransportError == [failed |-> TRUE]
Responses ==
    {TransportError}
    \cup {[statusCode |-> 200, body |-> b] : b \in Bodies}
    \cup {[statusCode |-> c, body |-> "<html>"] : c \in {300, 404}}
    \cup {[statusCode |-> c, body |-> stringify([merged_at |-> FALSE])] :
             c \in {299, 500}}

Threw == [threw |-> TRUE, value |-> JsonNull]
Returned(value) == [threw |-> FALSE, value |-> value]

\* fetchUtils.fetch(opts), given what brq did.
fetch(res) ==
    IF res = TransportError THEN Threw
    ELSE IF res.statusCode = 404 THEN Returned(JsonNull)
    ELSE IF res.statusCode < 200 \/ res.statusCode >= 300 THEN Threw
    ELSE IF parse(res.body) = SyntaxError THEN Threw
    ELSE Returned(parse(res.body))

\* opts.expire: a number of seconds, or a function of the response such as
\* json => json.merged_at ? 0 : ttl.
Expires ==
    {[type |-> "number", ttl |-> n] : n \in 1..MaxTtl} \cup
    {[type |-> "function", ttl |-> MaxTtl]}

expireOf(expire, json) ==
    IF expire.type = "number" THEN expire.ttl
    ELSE IF json.merged_at THEN 0 ELSE expire.ttl

NoResponse == [none |-> TRUE]

\* A fetchCached call that has started: its options, its state ("fetching"
\* until it completes, then "returned" or the name of the error thrown),
\* what it returned, the response its request got, the calls that had
\* completed when it started, and the times of its start and completion.
Call(name, file, expire) ==
    [name |-> name, file |-> file, expire |-> expire,
     state |-> "fetching", value |-> JsonNull, wasCached |-> FALSE,
     response |-> NoResponse, issued |-> 0,
     after |-> {i \in DOMAIN log : log[i].state # "fetching"},
     startClock |-> clock, endClock |-> 0]

Finish(call, state, value, wasCached) ==
    [call EXCEPT !.state = state, !.value = value, !.wasCached = wasCached,
                 !.endClock = clock]

FetchInit ==
    /\ log = <<>>
    /\ requests = 0
    /\ calls = [c \in Callers |-> NoCall]

\* fetchCached(cache, opts) up to its first await of the network, without
\* opts.semaphore: the assertions, cache.getCache and, on a miss, the
\* request handed to brq.  k is the draw of Math.random() in hasExpired.
fetchCachedCall(name, file, expire, k) ==
    /\ Len(log) < MaxCalls
    /\ LET call == Call(name, file, expire)
           cached == callGetCache(name, file, k)
       IN IF ~instanceofNullCache
            THEN /\ log' = Append(log,
                       Finish(call, "AssertionError", JsonNull, FALSE))
                 /\ UNCHANGED <<cacheMap, files, hasChanged, requests, calls>>
          ELSE IF cached.ret # Null
            THEN /\ Install(cached)
                 /\ log' = Append(log,
                       IF parse(cached.ret) = SyntaxError
                         THEN Finish(call, "SyntaxError", JsonNull, FALSE)
                         ELSE Finish(call, "returned", parse(cached.ret), TRUE))
                 /\ UNCHANGED <<requests, calls>>
          ELSE /\ Install(cached)
               /\ log' = Append(log, [call EXCEPT !.issued = 1])
               /\ requests' = requests + 1
               /\ UNCHANGED calls
    /\ UNCHANGED <<kind, ignore, cacheInfoFile, clock, last, ops>>

\* fetchCached(cache, opts) after the request: the result of fetch is
\* classified, a document is written through the cache and returned.
fetchCachedResponse(i, res) ==
    /\ i \in DOMAIN log
    /\ log[i].state = "fetching"
    /\ LET call == [log[i] EXCEPT !.response = res]
           got == fetch(res)
           json == got.value
           raw == stringify(json)
           written == callCache(call.name, call.file, raw,
                                expireOf(call.expire, json))
       IN IF got.threw \/ json = JsonNull
            THEN /\ log' = [log EXCEPT ![i] =
                              Finish(call, "returned", JsonNull, FALSE)]
                 /\ UNCHANGED <<cacheMap, files, hasChanged>>
            ELSE /\ Install(written)
                 /\ log' = [log EXCEPT ![i] =
                              Finish(call, "returned", json, FALSE)]
    /\ UNCHANGED <<kind, ignore, cacheInfoFile, clock, last, ops, requests,
                   calls>>

(***************************************************************************)
(* CLI: lock file, redraw timer and shutdown                               *)
(***************************************************************************)
\* The invocations of the tool on one working directory, one process each.
Invocations == {"a", "b", "c"}

NoError == "none"
\* new Error('Another process is running.\n' + `If not remove: ${lfile}.`)
AnotherProcess == "Another process is running."
\* what fs.unlink rejects with when the file does not exist
ENOENT == "ENOENT"

\* new CLI(options) followed by init(): the timer is not set, out is empty.
\* state is the position of the process: "new" before start(), "started"
\* between start() and stop(), "stopped" after stop() returned, "failed"
\* after start() or stop() threw (the process then exits, bin/hs-tools
\* 168-183). drawn counts the calls of draw(), final those made by stop(),
\* console the calls of console.log with their arguments.
CLI(force) ==
    [force |-> force, state |-> "new", interval |-> FALSE, out |-> <<>>,
     console |-> <<>>, drawn |-> 0, final |-> 0, stopCalled |-> FALSE,
     error |-> NoError]

\* What a lock operation threw and whether the lock file exists after it.
Locked(error, exists) == [error |-> error, lfile |-> exists]

\* CLI.lockFile(): fs.open with O_RDWR | O_CREAT | O_EXCL, skipped with force.
lockFile(c, exists) ==
    IF c.force THEN Locked(NoError, exists)
    ELSE IF exists THEN Locked(AnotherProcess, TRUE)
    ELSE Locked(NoError, TRUE)

\* CLI.unlockFile(): fs.unlink, whatever force is.
unlockFile(c, exists) ==
    IF exists THEN Locked(NoError, FALSE) ELSE Locked(ENOENT, FALSE)

\* CLI.draw(): one call of renderer.draw(this.tasks).
draw(c) == [c EXCEPT !.drawn = @ + 1]

\* CLI.done(): one console.log of all buffered values, none when out is
\* empty (`done` itself names an argument of calculateSteps).
flush(c) ==
    IF Len(c.out) # 0 THEN [c EXCEPT !.console = Append(@, c.out)] ELSE c

CliInit ==
    /\ lfile = FALSE
    /\ cli \in [Invocations -> {CLI(force) : force \in BOOLEAN}]

\* CLI.start(): lockFile(), then the redraw timer is set.
start(i) ==
    /\ cli[i].state = "new"
    /\ LET locked == lockFile(cli[i], lfile)
       IN /\ lfile' = locked.lfile
          /\ cli' = [cli EXCEPT ![i] =
                        IF locked.error # NoError
                          THEN [@ EXCEPT !.state = "failed",
                                         !.error = locked.error]
                          ELSE [@ EXCEPT !.state = "started",
                                         !.interval = TRUE]]

\* setInterval(this.draw.bind(this), 100): one tick of the redraw timer.
OnInterval(i) ==
    /\ cli[i].interval
    /\ cli[i].drawn < MaxTicks
    /\ cli' = [cli EXCEPT ![i] = draw(@)]
    /\ lfile' = lfile

\* command.on('out', (...args) => this.out.push(...args)) while the command
\* runs; the values are numbered in emission order.
OnOut(i) ==
    /\ cli[i].state = "started"
    /\ Len(cli[i].out) < MaxOut
    /\ cli' = [cli EXCEPT ![i].out = Append(@, Len(@) + 1)]
    /\ lfile' = lfile

\* CLI.stop(): clearInterval, unlockFile(), draw(), done(); when unlockFile
\* throws, draw() and done() are not reached.
stop(i) ==
    /\ cli[i].state = "started"
    /\ LET cleared == [cli[i] EXCEPT !.interval = FALSE, !.stopCalled = TRUE]
           unlocked == unlockFile(cleared, lfile)
       IN /\ lfile' = unlocked.lfile
          /\ cli' = [cli EXCEPT ![i] =
                        IF unlocked.error # NoError
                          THEN [cleared EXCEPT !.state = "failed",
                                               !.error = unlocked.error]
                          ELSE [flush([draw(cleared) EXCEPT !.final = @ + 1])
                                  EXCEPT !.state = "stopped"]]

\* The process ends without stop(): the timer dies with it, the lock file
\* is left as it is, and error names the way out.
exit(c, error) ==
    [c EXCEPT !.state = "exited", !.interval = FALSE, !.error = error]

\* The command line names no known command: after await cli.start() the
\* switch throws a CLIError, the catch handler logs it and calls
\* process.exit(1).
unknownCommand(i) ==
    /\ cli[i].state = "started"
    /\ Len(cli[i].out) = 0
    /\ cli' = [cli EXCEPT ![i] = exit(@, "CLIError")]
    /\ lfile' = lfile

\* await cli.run(...) rejects: the catch handlers log the error and call
\* process.exit(1) for a CLIError, process.exit(2) for any other.
commandThrows(i) ==
    /\ cli[i].state = "started"
    /\ cli' = [cli EXCEPT ![i] = exit(@, "Error")]
    /\ lfile' = lfile

\* process.on('SIGINT'): restoreCursor() and process.exit(1), wherever the
\* run stands.
SIGINT(i) ==
    /\ cli[i].state \in {"new", "started"}
    /\ cli' = [cli EXCEPT ![i] = exit(@, "SIGINT")]
    /\ lfile' = lfile

(***************************************************************************)
(* LockFile: the heartbeat lock (lockfile.js)                              *)
(***************************************************************************)
\* Times are in milliseconds, as Date.now() and stat.mtimeMs.
A_SECOND == 1000
WAIT == A_SECOND * 2 + 500
MAX_TRIES == 4

\* The processes that share one lock directory, one LockFile each.
Processes == {"p", "q"}

\* What LockFile.stat() returns: null for a missing file, else the stat.
NoStat == [absent |-> TRUE]
Stat(mtimeMs) == [mtimeMs |-> mtimeMs]

\* A LockFile and the position of its owner: "new" (constructed),
\* "trying" (in the loop of tryAcquire, before stat), "sleeping" (in
\* sleep(A_SECOND), until timer), "acquired" (tryAcquire returned true),
\* "holding" (the update interval is set, due at timer), "failed" (open
\* returned false), "closed", and "stopped" (the process stopped running
\* without close(), at time since).  tries is the loop variable i and
\* since the time at which open() was called.
LockFile(state, tries, timer, since) ==
    [state |-> state, tries |-> tries, timer |-> timer, since |-> since]

\* A plausible slip in tryAcquire: the mtime is compared without WAIT.
staleNoWait(stat, t) == stat = NoStat \/ stat.mtimeMs < t

\* tryAcquire: !stat || stat.mtimeMs + WAIT < now
stale(stat, t) == stat = NoStat \/ stat.mtimeMs + WAIT < t

\* LockFile.touch(): fs.truncate of the file, or its exclusive creation
\* when it is missing; either way the file is there with mtime t.
touch(stat, t) == Stat(t)

\* No lock file, no LockFile opened.
LfIdle ==
    /\ lock = NoStat
    /\ time = 0
    /\ lf = [p \in Processes |-> LockFile("new", 0, 0, 0)]

\* Process p holds the lock it took at time 0 on an empty directory, and
\* heartbeats; the others have not called open().
LfInit ==
    /\ lock = Stat(0)
    /\ time = 0
    /\ lf = [p \in Processes |->
               IF p = "p" THEN LockFile("holding", 0, A_SECOND, 0)
               ELSE LockFile("new", 0, 0, 0)]

\* No process has called open() yet; the directory has no lock file, or
\* the file of an owner that stopped at time 0 without close() and is
\* stale by now (0 + WAIT < time).
LfFreeInit ==
    /\ lock \in {NoStat, Stat(0)}
    /\ time = WAIT + A_SECOND \div 2
    /\ lf = [p \in Processes |-> LockFile("new", 0, 0, 0)]

\* open() up to the first test of tryAcquire: without a file the lock is
\* acquired, else the loop is entered.
LfOpen(p) ==
    /\ lf[p].state \in {"new", "failed"}
    /\ lf' = [lf EXCEPT ![p] =
                IF lock = NoStat THEN LockFile("acquired", 0, 0, time)
                ELSE LockFile("trying", 0, 0, time)]
    /\ UNCHANGED <<lock, time>>

\* One iteration of the loop of tryAcquire up to its sleep.
LfTry(p) ==
    /\ lf[p].state = "trying"
    /\ lf' = [lf EXCEPT ![p] =
                IF stale(lock, time) THEN [@ EXCEPT !.state = "acquired"]
                ELSE [@ EXCEPT !.state = "sleeping",
                               !.timer = time + A_SECOND]]
    /\ UNCHANGED <<lock, time>>

\* sleep(A_SECOND) is over: i++, and the loop goes on or open() returns
\* false.
LfWake(p) ==
    /\ lf[p].state = "sleeping"
    /\ lf[p].timer = time
    /\ lf' = [lf EXCEPT ![p] =
                [@ EXCEPT !.tries = @ + 1,
                          !.state = IF lf[p].tries + 1 < MAX_TRIES
                                      THEN "trying" ELSE "failed"]]
    /\ UNCHANGED <<lock, time>>

\* open() after tryAcquire returned true: update() and setInterval.
LfUpdate(p) ==
    /\ lf[p].state = "acquired"
    /\ lock' = touch(lock, time)
    /\ lf' = [lf EXCEPT ![p] = [@ EXCEPT !.state = "holding",
                                         !.timer = time + A_SECOND]]
    /\ UNCHANGED time

\* The update interval fires: update().
LfInterval(p) ==
    /\ lf[p].state = "holding"
    /\ lf[p].timer = time
    /\ lock' = touch(lock, time)
    /\ lf' = [lf EXCEPT ![p] = [@ EXCEPT !.timer = time + A_SECOND]]
    /\ UNCHANGED time

\* close(): clearInterval and unlink.
LfClose(p) ==
    /\ lf[p].state = "holding"
    /\ lock' = NoStat
    /\ lf' = [lf EXCEPT ![p] = [@ EXCEPT !.state = "closed"]]
    /\ UNCHANGED time

\* The holder stops running (it is killed or hangs) without close(): no
\* heartbeat any more, and the file stays.
LfStop(p) ==
    /\ lf[p].state = "holding"
    /\ lf' = [lf EXCEPT ![p] = [@ EXCEPT !.state = "stopped",
                                         !.since = time]]
    /\ UNCHANGED <<lock, time>>

\* Half a second passes, once every timer due now has fired and every
\* process is waiting for a timer or is not running.
LfTime ==
    /\ time < MaxSeconds * A_SECOND
    /\ \A p \in Processes :
          /\ lf[p].state \notin {"trying", "acquired"}
          /\ lf[p].state \in {"sleeping", "holding"} => lf[p].timer > time
    /\ time' = time + A_SECOND \div 2
    /\ UNCHANGED <<lock, lf>>

(***************************************************************************)
(* calculateSteps                                                          *)
(***************************************************************************)
\* function calculateSteps(done, running, waiting, maxSteps = 8)
defaultMaxSteps == 8

Min(a, b) == IF a < b THEN a ELSE b

NoResult == [absent |-> TRUE]

\* The object calculateSteps returns, or the assertion that failed.
Shown(threw, sDone, hDone, sRunning, hRunning, sWaiting, hWaiting) ==
    [threw |-> threw,
     showDone |-> sDone, hiddenDone |-> hDone,
     showRunning |-> sRunning, hiddenRunning |-> hRunning,
     showWaiting |-> sWaiting, hiddenWaiting |-> hWaiting]

\* A plausible slip in calculateSteps: Math.floor for Math.ceil.
calculateStepsFloor(done, running, waiting, maxSteps) ==
    LET leftForRunning == Min(2, done) + Min(2, waiting)
        showRunning == Min(running, maxSteps - leftForRunning)
        hiddenRunning == running > showRunning
        left1 == maxSteps - showRunning
        leftWaiting == left1 \div 2
        showWaiting1 == Min(leftWaiting, waiting)
        hiddenWaiting1 == waiting > showWaiting1
        left2 == left1 - showWaiting1
        showDone == Min(left2, done)
        hiddenDone == done > showDone
        left3 == left2 - showDone
        refill == left3 # 0 /\ hiddenWaiting1
        showWaiting == IF refill THEN Min(waiting, showWaiting1 + left3)
                       ELSE showWaiting1
        hiddenWaiting == waiting > showWaiting
        left == IF refill THEN left3 - (showWaiting - showWaiting1) ELSE left3
        threw == IF done + running + waiting < maxSteps
                   THEN "AssertionError: steps"
                 ELSE IF left # 0 THEN "AssertionError: left"
                 ELSE IF showDone + showRunning + showWaiting # maxSteps
                   THEN "AssertionError: shown"
                 ELSE "none"
    IN Shown(threw, showDone, hiddenDone, showRunning, hiddenRunning,
             showWaiting, hiddenWaiting)

\* calculateSteps(done, running, waiting, maxSteps): left1..left3 are the
\* values of `left` after each subtraction, showWaiting1 and hiddenWaiting1
\* those of showWaiting and hiddenWaiting before the refill; Math.ceil(n / 2)
\* is (n + 1) \div 2.
calculateSteps(done, running, waiting, maxSteps) ==
    LET leftForRunning == Min(2, done) + Min(2, waiting)
        showRunning == Min(running, maxSteps - leftForRunning)
        hiddenRunning == running > showRunning
        left1 == maxSteps - showRunning
        leftWaiting == (left1 + 1) \div 2
        showWaiting1 == Min(leftWaiting, waiting)
        hiddenWaiting1 == waiting > showWaiting1
        left2 == left1 - showWaiting1
        showDone == Min(left2, done)
        hiddenDone == done > showDone
        left3 == left2 - showDone
        refill == left3 # 0 /\ hiddenWaiting1
        showWaiting == IF refill THEN Min(waiting, showWaiting1 + left3)
                       ELSE showWaiting1
        hiddenWaiting == waiting > showWaiting
        left == IF refill THEN left3 - (showWaiting - showWaiting1) ELSE left3
        threw == IF done + running + waiting < maxSteps
                   THEN "AssertionError: steps"
                 ELSE IF left # 0 THEN "AssertionError: left"
                 ELSE IF showDone + showRunning + showWaiting # maxSteps
                   THEN "AssertionError: shown"
                 ELSE "none"
    IN Shown(threw, showDone, hiddenDone, showRunning, hiddenRunning,
             showWaiting, hiddenWaiting)

Counts(done, running, waiting) ==
    [done |-> done, running |-> running, waiting |-> waiting,
     result |-> NoResult]

\* The step counts of a task: any three numbers of steps.
CalcInit ==
    calc \in {Counts(d, r, w) : d \in 0..MaxCount, r \in 0..MaxCount,
                                w \in 0..MaxCount}

\* calculateSteps(done, running, waiting) with the default maxSteps.
Calculate ==
    /\ calc.result = NoResult
    /\ calc' = [calc EXCEPT !.result =
                   calculateSteps(calc.done, calc.running, calc.waiting,
                                  defaultMaxSteps)]

\* The arguments of a call with maxSteps given: any three numbers of steps
\* and any maxSteps from 1 to the default.
CalcAnyInit ==
    calc \in {[done |-> d, running |-> r, waiting |-> w, maxSteps |-> m,
               result |-> NoResult] :
                 d \in 0..MaxCount, r \in 0..MaxCount, w \in 0..MaxCount,
                 m \in 1..defaultMaxSteps}

\* calculateSteps(done, running, waiting, maxSteps)
CalculateAny ==
    /\ calc.result = NoResult
    /\ calc' = [calc EXCEPT !.result =
                   calculateSteps(calc.done, calc.running, calc.waiting,
                                  calc.maxSteps)]

(***************************************************************************)
(* UIRenderer: getOutput, draw and getDiff                                 *)
(*                                                                         *)
(* A string is the sequence of its characters; a character is written as    *)
(* a one-element name ("ESC" is \u001b, "l0".."l9" the ten spinner glyphs).*)
(***************************************************************************)
ESC == "ESC"
LOZENGE == "LOZENGE"
LOZENGE_OUTLINE == "LOZENGE_OUTLINE"
loading == <<"l0", "l1", "l2", "l3", "l4", "l5", "l6", "l7", "l8", "l9">>

\* The characters of the names and messages of the model.
chars(s) ==
    CASE s = "" -> <<>>
      [] s = "t1" -> <<"t", "1">>
      [] s = "t2" -> <<"t", "2">>
      [] s = "s1" -> <<"s", "1">>
      [] s = "s2" -> <<"s", "2">>
      [] s = "msg" -> <<"m", "s", "g">>
      [] s = "failed" -> <<"f", "a", "i", "l", "e", "d">>

DigitChars == <<"0", "1", "2", "3", "4", "5", "6", "7", "8", "9">>

\* `${n}` for a non-negative integer n
RECURSIVE digits(_)
digits(n) ==
    IF n < 10 THEN <<DigitChars[n + 1]>>
    ELSE digits(n \div 10) \o <<DigitChars[(n % 10) + 1]>>

\* colors.wrapColor(color, text)
wrapColor(color, text) ==
    IF ~isTTY THEN text
    ELSE <<ESC, "[">> \o digits(color) \o <<"m">> \o text
           \o <<ESC, "[", "0", "m">>

greenText(text) == wrapColor(GREEN, text)
yellowText(text) == wrapColor(YELLOW, text)

\* ansiRegex(): the classes of the alternative that ends in a final byte,
\*   ESC [[\]()#;?]* (\d{1,4}(;\d{0,4})*)? [\dA-PR-TZcf-nq-uy=><~]
\* The alternative that ends in \u0007 and the groups led by ';' match
\* nothing here: no string of the model holds \u0007 or ';'.
Intro == {"[", "]", "(", ")", "#", ";", "?"}
Digits == {DigitChars[i] : i \in 1..10}
Final ==
    Digits \cup {"A", "B", "C", "D", "E", "F", "G", "H", "I", "J", "K", "L",
                 "M", "N", "O", "P", "R", "S", "T", "Z", "c", "f", "g", "h",
                 "i", "j", "k", "l", "m", "n", "q", "r", "s", "t", "u", "y",
                 "=", ">", "<", "~"}

\* The first index from i on whose character is not in set, at most n on.
RECURSIVE skip(_, _, _, _)
skip(s, i, set, n) ==
    IF n > 0 /\ i <= Len(s) /\ s[i] \in set
      THEN skip(s, i + 1, set, n - 1)
      ELSE i

\* The index of the last character of the match that starts at p, 0 when
\* there is none. The quantifiers are greedy; when no final byte follows the
\* digits, the last digit is the final byte.
ansiRegex(s, p) ==
    LET a == skip(s, p + 1, Intro, Len(s))
        b == skip(s, a, Digits, 4)
    IN IF s[p] # ESC THEN 0
       ELSE IF b <= Len(s) /\ s[b] \in Final THEN b
       ELSE IF b > a THEN b - 1
       ELSE 0

RECURSIVE replace(_, _)
replace(s, p) ==
    IF p > Len(s) THEN <<>>
    ELSE IF ansiRegex(s, p) > 0 THEN replace(s, ansiRegex(s, p) + 1)
    ELSE <<s[p]>> \o replace(s, p + 1)

\* stripAnsi(string): string.replace(ansiRegex(), '')
stripAnsi(string) == replace(string, 1)

NullDiff == [null |-> TRUE]

\* getDiff(stra, strb, maxDiffs): null, or the Map from the (0-based) index
\* of a differing character to the character of strb there. Only stra is
\* stripped of its escape sequences; the loop runs over the stripped stra
\* and returns null once more than maxDiffs indices differ.
getDiff(stra, strb, maxDiffs) ==
    IF Len(stra) # Len(strb) THEN NullDiff
    ELSE LET stripped == stripAnsi(stra)
             at == {i \in 0..(Len(stripped) - 1) :
                       stripped[i + 1] # strb[i + 1]}
         IN IF Cardinality(at) > maxDiffs THEN NullDiff
            ELSE [map |-> [i \in at |-> strb[i + 1]]]

\* UIRenderer.loading()
spinner == <<loading[(frame % Len(loading)) + 1]>>

\* UIRenderer.prefix(status)
prefix(status) ==
    IF status = RUNNING THEN yellowText(spinner)
    ELSE IF status = DONE THEN greenText(<<LOZENGE>>)
    ELSE <<LOZENGE_OUTLINE>>

\* UIRenderer.suffix(message)
suffix(message) ==
    IF message # "" THEN <<" ", "-", " ">> \o chars(message) ELSE <<>>

\* task.steps.size
size(task) == Cardinality({n \in StepNames : task.steps[n] # NoStep})

\* UIRenderer.getRunning(task)
getRunning(task) ==
    IF task.status = DONE THEN <<>>
    ELSE IF size(task) = 0 THEN <<>>
    ELSE <<"(">> \o digits(task.done) \o <<"/">> \o digits(size(task))
           \o <<")">>

\* formatTask(task) of getOutput
formatTask(name, task) ==
    <<" ", " ">> \o prefix(task.status) \o <<" ">> \o getRunning(task)
      \o <<" ">> \o chars(name) \o <<" ">> \o suffix(task.message)

\* formatStep(step) of getOutput
formatStep(name, step) ==
    <<" ", " ", " ", " ">> \o prefix(step.status) \o <<" ">> \o chars(name)
      \o <<" ">> \o suffix(step.message)

\* The Maps iterate in insertion order: tasks and steps are named in the
\* order in which they were first referenced (see FirstReference).
TaskOrder == <<"t1", "t2">>
StepOrder == <<"s1", "s2">>

RECURSIVE stepLines(_, _)
stepLines(task, k) ==
    IF k > Len(StepOrder) THEN <<>>
    ELSE (IF task.steps[StepOrder[k]] = NoStep THEN <<>>
          ELSE <<formatStep(StepOrder[k], task.steps[StepOrder[k]])>>)
           \o stepLines(task, k + 1)

RECURSIVE taskLines(_, _)
taskLines(registry, k) ==
    IF k > Len(TaskOrder) THEN <<>>
    ELSE (IF registry[TaskOrder[k]] = NoTask THEN <<>>
          ELSE <<formatTask(TaskOrder[k], registry[TaskOrder[k]])>>
                 \o (IF registry[TaskOrder[k]].status = DONE THEN <<>>
                     ELSE stepLines(registry[TaskOrder[k]], 1)))
           \o taskLines(registry, k + 1)

\* UIRenderer.getOutput(tasks): the header line of every task and, unless
\* the task is Done, the line of every step; a task of the model has at
\* most two steps, so task.steps.size <= maxSteps and no step is elided.
getOutput(registry) == taskLines(registry, 1)

\* A line of a shown step (steps[at], from 1) and a placeholder line.
StepLine(at, status) ==
    [more |-> -1, at |-> at, glyph |-> prefix(status)]

\* formatMore(status, more) of getOutput
formatMore(status, more) ==
    [more |-> more, at |-> 0, glyph |-> prefix(status)]

\* steps.filter(s => s.status is in set): the positions of those steps
filter(steps, set) ==
    LET Test(i) == steps[i] \in set
    IN SelectSeq([i \in 1..Len(steps) |-> i], Test)

\* formatStep of doneSteps[i], ..., doneSteps[to - 1] (indices from 0)
RECURSIVE stepsFrom(_, _, _, _)
stepsFrom(steps, group, i, to) ==
    IF i >= to THEN <<>>
    ELSE <<StepLine(group[i + 1], steps[group[i + 1]])>>
           \o stepsFrom(steps, group, i + 1, to)

\* A plausible slip in the done branch: the loop starts at `hidden`.
doneLinesFromHidden(steps, doneSteps, shown) ==
    IF shown.hiddenDone
      THEN LET hidden == Len(doneSteps) - shown.showDone
           IN <<formatMore(DONE, hidden)>>
                \o stepsFrom(steps, doneSteps, hidden, Len(doneSteps))
      ELSE stepsFrom(steps, doneSteps, 0, Len(doneSteps))

\* if (hiddenDone) {...} else {...}: the placeholder first, then the last
\* done steps from index hidden + 1 on.
doneLines(steps, doneSteps, shown) ==
    IF shown.hiddenDone
      THEN LET hidden == Len(doneSteps) - shown.showDone
           IN <<formatMore(DONE, hidden)>>
                \o stepsFrom(steps, doneSteps, hidden + 1, Len(doneSteps))
      ELSE stepsFrom(steps, doneSteps, 0, Len(doneSteps))

\* if (hiddenRunning) {...} else {...}: the first showRunning - 1 running
\* steps, then the placeholder.
runningLines(steps, runningSteps, shown) ==
    IF shown.hiddenRunning
      THEN stepsFrom(steps, runningSteps, 0, shown.showRunning - 1)
             \o <<formatMore(RUNNING, Len(runningSteps) - shown.showRunning)>>
      ELSE stepsFrom(steps, runningSteps, 0, Len(runningSteps))

\* if (hiddenWaiting) {...} else {...}
waitingLines(steps, waitingSteps, shown) ==
    IF shown.hiddenWaiting
      THEN stepsFrom(steps, waitingSteps, 0, shown.showWaiting - 1)
             \o <<formatMore(STOPPED, Len(waitingSteps) - shown.showWaiting)>>
      ELSE stepsFrom(steps, waitingSteps, 0, Len(waitingSteps))

\* getOutput for a task that is not Done and has more than maxSteps steps:
\* what it pushes after the task's line, or the assertion of calculateSteps
\* that failed. The counters of the task are the numbers of its steps of
\* each status, so the three assertions on the filtered lengths pass.
moreLines(steps, maxSteps) ==
    LET doneSteps == filter(steps, {FAILED, SKIPPED, DONE})
        runningSteps == filter(steps, {RUNNING})
        waitingSteps == filter(steps, {STOPPED})
        shown == calculateSteps(Len(doneSteps), Len(runningSteps),
                                Len(waitingSteps), maxSteps)
    IN IF shown.threw # "none" THEN [threw |-> shown.threw, lines |-> <<>>]
       ELSE [threw |-> "none",
             lines |-> doneLines(steps, doneSteps, shown)
                         \o runningLines(steps, runningSteps, shown)
                         \o waitingLines(steps, waitingSteps, shown)]

\* The statuses of the steps of a task with more than maxSteps steps: the
\* first step has any status, a later one is waiting, running or done.
ElideStatuses == {STOPPED, RUNNING, DONE}

Elided(steps, result) == [steps |-> steps, result |-> result]

ElideIdle == elided = Elided(<<>>, NoResult)

\* One piece of what draw() writes: a cursor movement or an erasure of
\* utils/ansi.js, or a text.
Op(op, n, text) == [op |-> op, n |-> n, text |-> text]
up(n) == Op("cursor.up", n, <<>>)
down(n) == Op("cursor.down", n, <<>>)
right(n) == Op("cursor.right", n, <<>>)
sol == Op("cursor.sol", 0, <<>>)
eraseLine == Op("erase.line", 0, <<>>)
eraseEol == Op("erase.eol", 0, <<>>)
Write(text) == Op("text", 0, text)

\* lines.join('\n') + '\n'
RECURSIVE join(_)
join(lines) ==
    IF lines = <<>> THEN <<"\n">>
    ELSE IF Len(lines) = 1 THEN lines[1] \o <<"\n">>
    ELSE lines[1] \o <<"\n">> \o join(Tail(lines))

\* const diffChars = 1
diffChars == 1

\* for (const [at, value] of diff.entries()): the entries from index `from`
\* on, in the order of insertion (ascending index).
RECURSIVE entries(_, _)
entries(map, from) ==
    LET keys == {k \in DOMAIN map : k >= from}
        at == CHOOSE k \in keys : \A other \in keys : k <= other
    IN IF keys = {} THEN <<>>
       ELSE <<sol, right(at), Write(<<map[at]>>)>> \o entries(map, at + 1)

\* One iteration of the loop of draw(): what it pushes for line i of the
\* previous frame.
pushed(prev, next, i) ==
    IF i > Len(next) THEN <<eraseLine, down(1)>>
    ELSE LET diff == getDiff(prev[i], next[i], diffChars)
         IN IF diff = NullDiff
              THEN <<sol, eraseEol, Write(next[i]), down(1), sol>>
            ELSE IF Cardinality(DOMAIN diff.map) = 0 THEN <<down(1)>>
            ELSE entries(diff.map, 0) \o <<down(1), sol>>

\* assert(diff.size <= diffChars) for the lines that reach it
diffAssertion(prev, next) ==
    \A i \in 1..Min(Len(prev), Len(next)) :
        LET diff == getDiff(prev[i], next[i], diffChars)
        IN diff # NullDiff => Cardinality(DOMAIN diff.map) <= diffChars

NoOutput == [null |-> TRUE]
NoDraw == [absent |-> TRUE]

\* What one draw() did: the previous frame, the new one, what was pushed to
\* outs (one sequence for the cursor.up, one per line of the previous
\* frame, then the extra lines and the final cursor.up) and what it threw.
Drawn(prev, next, outs, threw) ==
    [prev |-> prev, next |-> next, outs |-> outs, threw |-> threw]

\* The terminal: the cursor, with row 0 the row on which the first draw
\* begins, and the visible characters of every row around it.
Terminal(row, col, screen) == [row |-> row, col |-> col, screen |-> screen]

ScreenRows == (0 - MaxFrames)..(Len(TaskOrder) * (1 + Len(StepOrder)) + 1)

\* A cursor movement with parameter 0 moves by one: 0 stands for the
\* default value of CUU, CUD and CUF (ECMA-48 6.5.2, VT100, xterm).
Pn(n) == IF n = 0 THEN 1 ELSE n

\* The row `line` after text (without escape sequences) was printed from
\* column col (from 0) on.
put(line, col, text) ==
    LET padded == line \o [i \in 1..(col - Len(line)) |-> " "]
    IN SubSeq(padded, 1, col) \o text
         \o SubSeq(padded, col + Len(text) + 1, Len(padded))

\* The terminal after the characters of text from index i on, taken line
\* feed by line feed: the characters up to it are printed on the cursor's
\* row (an SGR sequence prints nothing, every other character takes one
\* column) and the line feed starts the next row (the tty maps it to
\* CR LF).
RECURSIVE print(_, _, _)
print(t, text, i) ==
    IF i > Len(text) THEN t
    ELSE LET feeds == {j \in i..Len(text) : text[j] = "\n"}
             end == IF feeds = {} THEN Len(text) + 1
                    ELSE CHOOSE j \in feeds : \A k \in feeds : j <= k
             seen == stripAnsi(SubSeq(text, i, end - 1))
             row == put(t.screen[t.row], t.col, seen)
         IN IF feeds = {}
              THEN Terminal(t.row, t.col + Len(seen),
                            [t.screen EXCEPT ![t.row] = row])
              ELSE print(Terminal(t.row + 1, 0,
                                  [t.screen EXCEPT ![t.row] = row]),
                         text, end + 1)

\* The terminal after one piece of what draw() wrote.
receive(t, o) ==
    CASE o.op = "cursor.up" -> [t EXCEPT !.row = @ - Pn(o.n)]
      [] o.op = "cursor.down" -> [t EXCEPT !.row = @ + Pn(o.n)]
      [] o.op = "cursor.right" -> [t EXCEPT !.col = @ + Pn(o.n)]
      [] o.op = "cursor.sol" -> [t EXCEPT !.col = 0]
      [] o.op = "erase.line" -> [t EXCEPT !.screen[t.row] = <<>>]
      [] o.op = "erase.eol" ->
           [t EXCEPT !.screen[t.row] = SubSeq(@, 1, Min(t.col, Len(@)))]
      [] o.op = "text" -> print(t, o.text, 1)

\* this.out.write(outs.join('')): the terminal after everything in outs.
RECURSIVE write(_, _, _, _)
write(t, outs, i, j) ==
    IF i > Len(outs) THEN t
    ELSE IF j > Len(outs[i]) THEN write(t, outs, i + 1, 1)
    ELSE write(receive(t, outs[i][j]), outs, i, j + 1)

UiInit ==
    /\ isTTY \in BOOLEAN
    /\ rendererName = "loader"
    /\ frame = 0
    /\ output = NoOutput
    /\ lastDraw = NoDraw
    /\ terminal = Terminal(0, 0, [r \in ScreenRows |-> <<>>])
    /\ ElideIdle

\* UIRenderer.draw(tasks). The first draw writes the whole frame; a later
\* one writes the difference to this._output. cursor is incremented once per
\* line of the previous frame, so it equals its length after the loop.
UIRendererDraw ==
    /\ frame < MaxFrames
    /\ UNCHANGED <<isTTY, rendererName, elided>>
    /\ LET next == getOutput(tasks)
       IN IF output = NoOutput
            THEN /\ output' = [lines |-> next]
                 /\ lastDraw' = Drawn(NoOutput, next, <<<<Write(join(next))>>>>,
                                     "none")
                 /\ frame' = frame + 1
            ELSE LET prev == output.lines
                     cursor == Len([i \in 1..Len(prev) |-> pushed(prev, next, i)])
                     outs ==
                         <<<<up(Len(prev))>>>>
                           \o [i \in 1..Len(prev) |-> pushed(prev, next, i)]
                           \o (IF Len(prev) < Len(next)
                                 THEN <<<<Write(join(SubSeq(next, Len(prev) + 1,
                                                            Len(next))))>>>>
                                 ELSE <<>>)
                           \o (IF Len(prev) > Len(next)
                                 THEN <<<<up(Len(prev) - Len(next))>>>>
                                 ELSE <<>>)
                 IN IF ~diffAssertion(prev, next) \/ cursor # Len(prev)
                      THEN /\ lastDraw' = Drawn(output, next, <<>>,
                                               "AssertionError")
                           /\ UNCHANGED <<output, frame>>
                      ELSE /\ output' = [lines |-> next]
                           /\ lastDraw' = Drawn(output, next, outs, "none")
                           /\ frame' = frame + 1
    /\ terminal' = write(terminal, lastDraw'.outs, 1, 1)

\* Renderer.draw(tasks), which TextRenderer inherits: an empty method.
RendererDraw ==
    /\ lastDraw' = Drawn(NoOutput, NoOutput, <<>>, "none")
    /\ UNCHANGED <<isTTY, rendererName, frame, output, terminal, elided>>

\* The steps of one task that is not Done: any statuses of more than
\* maxSteps steps.
ElideInit ==
    /\ isTTY = TRUE
    /\ rendererName = "loader"
    /\ frame = 0
    /\ output = NoOutput
    /\ lastDraw = NoDraw
    /\ terminal = Terminal(0, 0, [r \in ScreenRows |-> <<>>])
    /\ \E n \in (defaultMaxSteps + 1)..MaxSteps :
           elided \in {Elided(<<first>> \o rest, NoResult) :
                         first \in {STOPPED, RUNNING, FAILED, SKIPPED, DONE},
                         rest \in [1..(n - 1) -> ElideStatuses]}

\* getOutput(tasks) with the default maxSteps, for the steps of one task.
Elide ==
    /\ elided.result = NoResult
    /\ elided' = [elided EXCEPT !.result = moreLines(elided.steps,
                                                      defaultMaxSteps)]
    /\ UNCHANGED <<isTTY, rendererName, frame, output, lastDraw, terminal>>

(***************************************************************************)
(* Command: runTasks, runSeriesSteps, runParallelSteps (command.js)        *)
(***************************************************************************)
\* The steps handed to runSeriesSteps / runParallelSteps are those of
\* StepOrder, in Map order; job thunk k of the semaphore runs step k.
Batch == 1..Len(StepOrder)

\* this.current: the task start() has made Running.
current == CHOOSE t \in TaskNames : tasks[t] # NoTask /\ tasks[t].status = RUNNING

\* this.tasks after the `step <Status>` handler has run for
\* this.step(name, status) (command.js:46-55, cli.js:288-292).
stepStatus(ts, tname, name, status) ==
    [ts EXCEPT ![tname] = setStepStatus(@, name, status, Undefined)]

\* this.tasks after the `task <Status>` handler has run for
\* this.task(name, status) (command.js:33-42, cli.js:266-286).
taskStatus(ts, name, status) ==
    [ts EXCEPT ![name] =
        [(IF ts[name] = NoTask THEN Task(Undefined) ELSE ts[name])
           EXCEPT !.status = status]]

\* The registry after n more events were handled, the last of them e.
Emit(n, e, ts) ==
    /\ events' = events + n
    /\ event' = e
    /\ thrown' = "none"
    /\ Log(IF e.type = "step" THEN logStep(e.tname, e.name, e.status)
           ELSE logTask(e.tname, e.status))
    /\ tasks' = ts

\* A task that start() made Running, with the steps of reg registered
\* (registerSteps) and the others not.
Started(reg) ==
    [Task(Undefined) EXCEPT
        !.status = RUNNING,
        !.steps = [n \in StepNames |->
                     IF n \in reg THEN Step(STOPPED, Undefined) ELSE NoStep],
        !.stopped = Cardinality(reg)]

\* runParallelSteps is called within a task, on an idle semaphore.
ParInit ==
    /\ \E t \in TaskNames, reg \in SUBSET StepNames :
          tasks = [n \in TaskNames |-> IF n = t THEN Started(reg) ELSE NoTask]
    /\ thrown = "none"
    /\ events = 0
    /\ event = NoEvent
    /\ logged = <<>>

\* A job thunk that execute() has just invoked runs up to await fn():
\* this.step(step, RUNNING).
Invoked ==
    IF started' # started
      THEN LET name == StepOrder[started'[Len(started')]]
           IN Emit(1, Event("step", RUNNING, current, name, Undefined),
                   stepStatus(tasks, current, name, RUNNING))
      ELSE UNCHANGED regVars

\* One iteration of the loop of runParallelSteps:
\* running.push(semaphore.do(async () => {...})).
runParallelSteps(j) ==
    /\ j \in Batch
    /\ do(j)
    /\ Invoked

\* A plausible slip in the thunk: the catch block does not mark the step.
settlesNoFailed(j, how) ==
    /\ \A i \in Batch : jobState[i] # "new"
    /\ Settle(j, "fulfilled")
    /\ LET name == StepOrder[j]
       IN IF how = "rejected"
            THEN Emit(1, event, tasks)
            ELSE Emit(1, Event("step", DONE, current, name, Undefined),
                      stepStatus(tasks, current, name, DONE))

\* fn() of a running step settles, after the loop (which does not await):
\* the thunk goes on with this.step(step, DONE), or with this.error(e),
\* handled by the 'error' handler, and this.step(step, FAILED); either way
\* the thunk's own promise fulfils.
settles(j, how) ==
    /\ \A i \in Batch : jobState[i] # "new"
    /\ Settle(j, "fulfilled")
    /\ LET name == StepOrder[j]
       IN IF how = "rejected"
            THEN Emit(2, Event("step", FAILED, current, name, Undefined),
                      stepStatus(tasks, current, name, FAILED))
            ELSE Emit(1, Event("step", DONE, current, name, Undefined),
                      stepStatus(tasks, current, name, DONE))

\* The then reaction of execute() for a thunk that fulfilled; the thunk it
\* starts, if any, emits Running.
reaction(j) ==
    /\ OnFulfilled(j)
    /\ Invoked

\* await Promise.all(running) is over: every promise of the batch has
\* fulfilled, or one of them has rejected.
allSettled ==
    \/ \A j \in Batch : promise[j] # Pending
    \/ \E j \in Batch : promise[j] = ErrorOf(j)

\* registerSteps(steps) for the steps of reg, from step k on: one 'step'
\* event each, handled by task.addStep (cli.js:266-270).
RECURSIVE registerSteps(_, _, _)
registerSteps(tk, reg, k) ==
    IF k > Len(StepOrder) THEN tk
    ELSE registerSteps(IF StepOrder[k] \in reg
                         THEN addStep(tk, StepOrder[k], Undefined) ELSE tk,
                       reg, k + 1)

\* One iteration of runTasks up to the first await of runSeriesSteps:
\* this.start(task), then fn(), which registers the steps of reg and calls
\* runSeriesSteps, which emits Running for its first step and awaits it.
enter(ts, tname, reg) ==
    LET begun == taskStatus(ts, tname, RUNNING)
        registered == [begun EXCEPT ![tname] = registerSteps(@, reg, 1)]
    IN stepStatus(registered, tname, StepOrder[1], RUNNING)

\* The position of x in a sequence without repetitions.
IndexOf(seq, x) == CHOOSE i \in DOMAIN seq : seq[i] = x

\* A task is between start() and done().
SomeRunning ==
    \E t \in TaskNames : tasks[t] # NoTask /\ tasks[t].status = RUNNING

\* The steps of the current task whose status is Running.
RunningSteps ==
    {name \in StepNames :
        /\ tasks[current].steps[name] # NoStep
        /\ tasks[current].steps[name].status = RUNNING}

\* runTasks has not been called; registerTasks has registered every task
\* or none.
SeriesInit ==
    /\ tasks \in {[t \in TaskNames |-> NoTask],
                  [t \in TaskNames |-> Task(Undefined)]}
    /\ thrown = "none"
    /\ events = 0
    /\ event = NoEvent
    /\ logged = <<>>

\* runTasks(tasks) up to its first await: the first iteration.
runTasks(reg) ==
    /\ ~SomeRunning
    /\ \A t \in TaskNames :
          IF tasks[t] = NoTask THEN TRUE ELSE tasks[t].status = STOPPED
    /\ Emit(2 + Cardinality(reg),
            Event("step", RUNNING, TaskOrder[1], StepOrder[1], Undefined),
            enter(tasks, TaskOrder[1], reg))

\* A plausible slip in runSeriesSteps: the catch block does not return.
runSeriesStepsGoesOn(how) ==
    /\ SomeRunning
    /\ RunningSteps # {}
    /\ LET name == CHOOSE n \in RunningSteps : TRUE
           k == IndexOf(StepOrder, name)
           ended == stepStatus(tasks, current, name,
                               IF how = "rejected" THEN FAILED ELSE DONE)
       IN IF k < Len(StepOrder)
            THEN Emit(IF how = "rejected" THEN 3 ELSE 2,
                      Event("step", RUNNING, current, StepOrder[k + 1],
                            Undefined),
                      stepStatus(ended, current, StepOrder[k + 1], RUNNING))
            ELSE Emit(IF how = "rejected" THEN 2 ELSE 1,
                      Event("step", IF how = "rejected" THEN FAILED ELSE DONE,
                            current, name, Undefined),
                      ended)

\* runSeriesSteps after await fn() of the running step: on a rejection
\* this.error(e), handled by the 'error' handler, this.step(step, FAILED,
\* e.messae) and return; else this.step(step, DONE) and the next iteration
\* up to its await, or the end of the loop.
runSeriesSteps(how) ==
    /\ SomeRunning
    /\ RunningSteps # {}
    /\ LET name == CHOOSE n \in RunningSteps : TRUE
           k == IndexOf(StepOrder, name)
           ended == stepStatus(tasks, current, name, DONE)
       IN IF how = "rejected"
            THEN Emit(2, Event("step", FAILED, current, name, Undefined),
                      stepStatus(tasks, current, name, FAILED))
          ELSE IF k < Len(StepOrder)
            THEN Emit(2, Event("step", RUNNING, current, StepOrder[k + 1],
                            Undefined),
                      stepStatus(ended, current, StepOrder[k + 1], RUNNING))
          ELSE Emit(1, Event("step", DONE, current, name, Undefined), ended)

\* runTasks after await fn(), runSeriesSteps having returned:
\* this.done(task), then the next iteration up to its await, or the end of
\* the loop.
resume(reg) ==
    /\ SomeRunning
    /\ RunningSteps = {}
    /\ LET i == IndexOf(TaskOrder, current)
           finished == taskStatus(tasks, current, DONE)
       IN IF i < Len(TaskOrder)
            THEN Emit(3 + Cardinality(reg),
                      Event("step", RUNNING, TaskOrder[i + 1], StepOrder[1],
                            Undefined),
                      enter(finished, TaskOrder[i + 1], reg))
            ELSE /\ reg = {}
                 /\ Emit(1, Event("task", DONE, current, NoName, Undefined),
                         finished)

(***************************************************************************)
(* Specifications                                                          *)
(***************************************************************************)
\* The cache of a specification that does not exercise it.
CacheIdle ==
    /\ kind = "NullCache"
    /\ ignore = FALSE
    /\ cacheMap = [id \in Ids |-> NoEntry]
    /\ hasChanged = FALSE
    /\ cacheInfoFile = [state |-> "absent"]
    /\ files = [id \in Ids |-> NoFile]
    /\ clock = 0
    /\ last = NoOp
    /\ ops = 0

\* The semaphore of a specification that does not exercise it.
SemIdle ==
    /\ max = 1
    /\ jobs = <<>>
    /\ active = 0
    /\ jobState = [j \in JobIds |-> "new"]
    /\ handlers = [j \in JobIds |-> NoHandlers]
    /\ promise = [j \in JobIds |-> Pending]
    /\ outcome = [j \in JobIds |-> "none"]
    /\ started = <<>>

\* The invocations, the calculateSteps call and the renderer of a
\* specification that does not exercise them.
CliIdle ==
    /\ lfile = FALSE
    /\ cli = [i \in Invocations |-> CLI(FALSE)]

CalcIdle == calc = Counts(0, 0, 0)

UiIdle ==
    /\ isTTY = FALSE
    /\ rendererName = "text"
    /\ terminal = Terminal(0, 0, [r \in ScreenRows |-> <<>>])
    /\ ElideIdle
    /\ frame = 0
    /\ output = NoOutput
    /\ lastDraw = NoDraw

SemDo ==
    /\ \E j \in JobIds : do(j)
    /\ UNCHANGED <<regVars, cacheVars, fetchVars, cliVars, calcVars, uiVars, lfVars>>

SemSettle ==
    /\ \E j \in JobIds : \E how \in {"fulfilled", "rejected"} : Settle(j, how)
    /\ UNCHANGED <<regVars, cacheVars, fetchVars, cliVars, calcVars, uiVars, lfVars>>

SemThen ==
    /\ \E j \in JobIds : OnFulfilled(j)
    /\ UNCHANGED <<regVars, cacheVars, fetchVars, cliVars, calcVars, uiVars, lfVars>>

SemCatch ==
    /\ \E j \in JobIds : OnRejected(j)
    /\ UNCHANGED <<regVars, cacheVars, fetchVars, cliVars, calcVars, uiVars, lfVars>>

SemNext ==
    \/ SemDo
    \/ SemSettle
    \/ SemThen
    \/ SemCatch

SemSpecInit == SemInit /\ RegInit /\ CacheIdle /\ FetchInit /\ CliIdle /\ CalcIdle /\ UiIdle
        /\ LfIdle

SemSpec == SemSpecInit /\ [][SemNext]_vars

\* The event loop runs every pending reaction, and every started job
\* settles some time after it was started.
SemLive ==
    /\ SemSpecInit
    /\ [][SemNext]_vars
    /\ WF_vars(SemSettle)
    /\ WF_vars(SemThen)
    /\ WF_vars(SemCatch)

ParDo ==
    /\ \E j \in JobIds : runParallelSteps(j)
    /\ UNCHANGED <<cacheVars, fetchVars, cliVars, calcVars, uiVars, lfVars>>

ParSettle ==
    /\ \E j \in JobIds, how \in {"fulfilled", "rejected"} : settles(j, how)
    /\ UNCHANGED <<cacheVars, fetchVars, cliVars, calcVars, uiVars, lfVars>>

ParThen ==
    /\ \E j \in JobIds : reaction(j)
    /\ UNCHANGED <<cacheVars, fetchVars, cliVars, calcVars, uiVars, lfVars>>

ParNext ==
    \/ ParDo
    \/ ParSettle
    \/ ParThen

ParSpecInit == SemInit /\ ParInit /\ CacheIdle /\ FetchInit /\ CliIdle /\ CalcIdle /\ UiIdle /\ LfIdle

\* One call of runParallelSteps on the steps of the current task.
ParSpec == ParSpecInit /\ [][ParNext]_vars

SeriesBegin ==
    /\ \E reg \in SUBSET StepNames : runTasks(reg)
    /\ UNCHANGED <<semVars, cacheVars, fetchVars, cliVars, calcVars, uiVars, lfVars>>

SeriesSettle ==
    /\ \E how \in {"fulfilled", "rejected"} : runSeriesSteps(how)
    /\ UNCHANGED <<semVars, cacheVars, fetchVars, cliVars, calcVars, uiVars, lfVars>>

SeriesResume ==
    /\ \E reg \in SUBSET StepNames : resume(reg)
    /\ UNCHANGED <<semVars, cacheVars, fetchVars, cliVars, calcVars, uiVars, lfVars>>

SeriesNext ==
    \/ SeriesBegin
    \/ SeriesSettle
    \/ SeriesResume

SeriesSpecInit == SemIdle /\ SeriesInit /\ CacheIdle /\ FetchInit /\ CliIdle /\ CalcIdle /\ UiIdle /\ LfIdle

\* runTasks over the tasks of TaskOrder, each running the steps of
\* StepOrder with runSeriesSteps.
SeriesSpec == SeriesSpecInit /\ [][SeriesNext]_vars

RegTask ==
    /\ \E name \in TaskNames, message \in Messages : OnTask(name, message)
    /\ UNCHANGED <<semVars, cacheVars, fetchVars, cliVars, calcVars, uiVars, lfVars>>

RegTaskStatus ==
    /\ \E status \in statusByID, name \in TaskNames, message \in Messages :
          OnTaskStatus(status, name, message)
    /\ UNCHANGED <<semVars, cacheVars, fetchVars, cliVars, calcVars, uiVars, lfVars>>

RegStep ==
    /\ \E tname \in TaskNames, name \in StepNames, message \in Messages :
          OnStep(tname, name, message)
    /\ UNCHANGED <<semVars, cacheVars, fetchVars, cliVars, calcVars, uiVars, lfVars>>

RegStepStatus ==
    /\ \E status \in statusByID, tname \in TaskNames, name \in StepNames,
          message \in Messages : OnStepStatus(status, tname, name, message)
    /\ UNCHANGED <<semVars, cacheVars, fetchVars, cliVars, calcVars, uiVars, lfVars>>

RegNext ==
    \/ RegTask
    \/ RegTaskStatus
    \/ RegStep
    \/ RegStepStatus

RegSpecInit == SemIdle /\ RegInit /\ CacheIdle /\ FetchInit /\ CliIdle /\ CalcIdle /\ UiIdle
        /\ LfIdle

RegSpec == RegSpecInit /\ [][RegNext]_vars

CachePut ==
    /\ \E name \in CacheNames, file \in FileNames, data \in Data,
          timeout \in 0..MaxTtl : Put(name, file, data, timeout)
    /\ UNCHANGED <<semVars, regVars, fetchVars, cliVars, calcVars, uiVars, lfVars>>

CacheGet ==
    /\ \E name \in CacheNames, file \in FileNames, k \in 0..(RandomSteps - 1) :
          Get(name, file, k)
    /\ UNCHANGED <<semVars, regVars, fetchVars, cliVars, calcVars, uiVars, lfVars>>

CacheTamper ==
    /\ \E name \in CacheNames, file \in FileNames : Tamper(name, file)
    /\ UNCHANGED <<semVars, regVars, fetchVars, cliVars, calcVars, uiVars, lfVars>>

CacheTick ==
    /\ \E t \in 1..MaxClock : Tick(t)
    /\ UNCHANGED <<semVars, regVars, fetchVars, cliVars, calcVars, uiVars, lfVars>>

CacheNext ==
    \/ CachePut
    \/ CacheGet
    \/ CacheTamper
    \/ CacheTick

CacheSpecInit == SemIdle /\ RegInit /\ CacheInit /\ FetchInit /\ CliIdle /\ CalcIdle /\ UiIdle
        /\ LfIdle

CacheSpec == CacheSpecInit /\ [][CacheNext]_vars

IndexOpen ==
    /\ Open
    /\ UNCHANGED <<semVars, regVars, fetchVars, cliVars, calcVars, uiVars, lfVars>>

IndexClose ==
    /\ Close
    /\ UNCHANGED <<semVars, regVars, fetchVars, cliVars, calcVars, uiVars, lfVars>>

IndexPut ==
    /\ Opened
    /\ \E name \in CacheNames, file \in FileNames, timeout \in 0..MaxTtl :
          Put(name, file, "d2", timeout)
    /\ UNCHANGED <<semVars, regVars, fetchVars, cliVars, calcVars, uiVars, lfVars>>

IndexGet ==
    /\ Opened
    /\ \E name \in CacheNames, file \in FileNames, k \in 0..(RandomSteps - 1) :
          Get(name, file, k)
    /\ UNCHANGED <<semVars, regVars, fetchVars, cliVars, calcVars, uiVars, lfVars>>

IndexTamper ==
    /\ Opened
    /\ \E name \in CacheNames, file \in FileNames : Tamper(name, file)
    /\ UNCHANGED <<semVars, regVars, fetchVars, cliVars, calcVars, uiVars, lfVars>>

\* The run takes long: the clock is at MaxClock afterwards.
IndexTick ==
    /\ Opened
    /\ Tick(MaxClock)
    /\ UNCHANGED <<semVars, regVars, fetchVars, cliVars, calcVars, uiVars, lfVars>>

IndexNext ==
    \/ IndexOpen
    \/ IndexClose
    \/ IndexPut
    \/ IndexGet
    \/ IndexTamper
    \/ IndexTick

IndexSpecInit ==
    SemIdle /\ RegInit /\ IndexInit /\ FetchInit /\ CliIdle /\ CalcIdle /\ UiIdle
        /\ LfIdle

IndexSpec == IndexSpecInit /\ [][IndexNext]_vars

OverlapCache ==
    /\ \E c \in Callers, name \in CacheNames, file \in FileNames, data \in Data :
          cacheCall(c, name, file, data, MaxTtl)
    /\ UNCHANGED <<kind, ignore, cacheInfoFile, clock, last, ops, log, requests>>
    /\ UNCHANGED <<semVars, regVars, cliVars, calcVars, uiVars, lfVars>>

OverlapCacheSet ==
    /\ \E c \in Callers : cacheSet(c)
    /\ UNCHANGED <<kind, ignore, cacheInfoFile, clock, last, ops, log, requests>>
    /\ UNCHANGED <<semVars, regVars, cliVars, calcVars, uiVars, lfVars>>

OverlapCacheOpen ==
    /\ \E c \in Callers : cacheOpen(c)
    /\ UNCHANGED <<kind, ignore, cacheInfoFile, clock, last, ops, log, requests>>
    /\ UNCHANGED <<semVars, regVars, cliVars, calcVars, uiVars, lfVars>>

OverlapCacheWrite ==
    /\ \E c \in Callers : cacheWrite(c)
    /\ UNCHANGED <<kind, ignore, cacheInfoFile, clock, last, ops, log, requests>>
    /\ UNCHANGED <<semVars, regVars, cliVars, calcVars, uiVars, lfVars>>

OverlapGetCache ==
    /\ \E c \in Callers, name \in CacheNames, file \in FileNames :
          getCacheCall(c, name, file)
    /\ UNCHANGED <<kind, ignore, cacheInfoFile, clock, last, ops, log, requests>>
    /\ UNCHANGED <<semVars, regVars, cliVars, calcVars, uiVars, lfVars>>

OverlapGetCacheExists ==
    /\ \E c \in Callers : getCacheExists(c)
    /\ UNCHANGED <<kind, ignore, cacheInfoFile, clock, last, ops, log, requests>>
    /\ UNCHANGED <<semVars, regVars, cliVars, calcVars, uiVars, lfVars>>

OverlapGetCacheChecked ==
    /\ \E c \in Callers, k \in 0..(RandomSteps - 1) : getCacheChecked(c, k)
    /\ UNCHANGED <<kind, ignore, cacheInfoFile, clock, last, ops, log, requests>>
    /\ UNCHANGED <<semVars, regVars, cliVars, calcVars, uiVars, lfVars>>

OverlapGetCacheUnlink ==
    /\ \E c \in Callers : getCacheUnlink(c)
    /\ UNCHANGED <<kind, ignore, cacheInfoFile, clock, last, ops, log, requests>>
    /\ UNCHANGED <<semVars, regVars, cliVars, calcVars, uiVars, lfVars>>

OverlapGetCacheReadFile ==
    /\ \E c \in Callers : getCacheReadFile(c)
    /\ UNCHANGED <<kind, ignore, cacheInfoFile, clock, last, ops, log, requests>>
    /\ UNCHANGED <<semVars, regVars, cliVars, calcVars, uiVars, lfVars>>

OverlapTick ==
    /\ \E t \in 1..MaxTtl : Tick(t)
    /\ UNCHANGED <<semVars, regVars, fetchVars, cliVars, calcVars, uiVars, lfVars>>

OverlapNext ==
    \/ OverlapCache
    \/ OverlapCacheSet
    \/ OverlapCacheOpen
    \/ OverlapCacheWrite
    \/ OverlapGetCache
    \/ OverlapGetCacheExists
    \/ OverlapGetCacheChecked
    \/ OverlapGetCacheUnlink
    \/ OverlapGetCacheReadFile
    \/ OverlapTick

OverlapSpecInit == SemIdle /\ RegInit /\ OverlapInit /\ FetchInit /\ CliIdle /\ CalcIdle /\ UiIdle /\ LfIdle

\* Calls of cache() and getCache() on one Cache that overlap in time.
OverlapSpec == OverlapSpecInit /\ [][OverlapNext]_vars

FetchCall ==
    /\ \E name \in CacheNames, file \in FileNames, expire \in Expires,
          k \in 0..(RandomSteps - 1) : fetchCachedCall(name, file, expire, k)
    /\ UNCHANGED <<semVars, regVars, cliVars, calcVars, uiVars, lfVars>>

FetchResponse ==
    /\ \E i \in 1..MaxCalls, res \in Responses : fetchCachedResponse(i, res)
    /\ UNCHANGED <<semVars, regVars, cliVars, calcVars, uiVars, lfVars>>

FetchTick ==
    /\ \E t \in 1..(MaxTtl + 1) : Tick(t)
    /\ UNCHANGED <<semVars, regVars, fetchVars, cliVars, calcVars, uiVars, lfVars>>

FetchNext ==
    \/ FetchCall
    \/ FetchResponse
    \/ FetchTick

FetchSpecInit == SemIdle /\ RegInit /\ CacheInit /\ FetchInit /\ CliIdle /\ CalcIdle /\ UiIdle
        /\ LfIdle

FetchSpec == FetchSpecInit /\ [][FetchNext]_vars

LockStart ==
    /\ \E i \in Invocations : start(i)
    /\ UNCHANGED <<semVars, regVars, cacheVars, fetchVars, calcVars, uiVars, lfVars>>

LockInterval ==
    /\ \E i \in Invocations : OnInterval(i)
    /\ UNCHANGED <<semVars, regVars, cacheVars, fetchVars, calcVars, uiVars, lfVars>>

LockOut ==
    /\ \E i \in Invocations : OnOut(i)
    /\ UNCHANGED <<semVars, regVars, cacheVars, fetchVars, calcVars, uiVars, lfVars>>

LockStop ==
    /\ \E i \in Invocations : stop(i)
    /\ UNCHANGED <<semVars, regVars, cacheVars, fetchVars, calcVars, uiVars, lfVars>>

LockNext ==
    \/ LockStart
    \/ LockInterval
    \/ LockOut
    \/ LockStop

LockSpecInit ==
    SemIdle /\ RegInit /\ CacheIdle /\ FetchInit /\ CliInit /\ CalcIdle /\ UiIdle
        /\ LfIdle

LockSpec == LockSpecInit /\ [][LockNext]_vars

ExitUnknown ==
    /\ \E i \in Invocations : unknownCommand(i)
    /\ UNCHANGED <<semVars, regVars, cacheVars, fetchVars, calcVars, uiVars, lfVars>>

ExitThrows ==
    /\ \E i \in Invocations : commandThrows(i)
    /\ UNCHANGED <<semVars, regVars, cacheVars, fetchVars, calcVars, uiVars, lfVars>>

ExitSigint ==
    /\ \E i \in Invocations : SIGINT(i)
    /\ UNCHANGED <<semVars, regVars, cacheVars, fetchVars, calcVars, uiVars, lfVars>>

ExitNext ==
    \/ LockStart
    \/ LockInterval
    \/ LockOut
    \/ LockStop
    \/ ExitUnknown
    \/ ExitThrows
    \/ ExitSigint

ExitSpecInit == SemIdle /\ RegInit /\ CacheIdle /\ FetchInit /\ CliInit /\ CalcIdle /\ UiIdle /\ LfIdle

\* Invocations that end through stop(), through the catch handlers of the
\* bin script or through the SIGINT handler.
ExitSpec == ExitSpecInit /\ [][ExitNext]_vars

StaleOpen ==
    /\ \E p \in Processes : LfOpen(p)
    /\ UNCHANGED <<semVars, regVars, cacheVars, fetchVars, cliVars, calcVars,
                   uiVars>>

StaleTry ==
    /\ \E p \in Processes : LfTry(p)
    /\ UNCHANGED <<semVars, regVars, cacheVars, fetchVars, cliVars, calcVars,
                   uiVars>>

StaleWake ==
    /\ \E p \in Processes : LfWake(p)
    /\ UNCHANGED <<semVars, regVars, cacheVars, fetchVars, cliVars, calcVars,
                   uiVars>>

StaleUpdate ==
    /\ \E p \in Processes : LfUpdate(p)
    /\ UNCHANGED <<semVars, regVars, cacheVars, fetchVars, cliVars, calcVars,
                   uiVars>>

StaleInterval ==
    /\ \E p \in Processes : LfInterval(p)
    /\ UNCHANGED <<semVars, regVars, cacheVars, fetchVars, cliVars, calcVars,
                   uiVars>>

StaleClose ==
    /\ \E p \in Processes : LfClose(p)
    /\ UNCHANGED <<semVars, regVars, cacheVars, fetchVars, cliVars, calcVars,
                   uiVars>>

StaleStop ==
    /\ \E p \in Processes : LfStop(p)
    /\ UNCHANGED <<semVars, regVars, cacheVars, fetchVars, cliVars, calcVars,
                   uiVars>>

StaleTime ==
    /\ LfTime
    /\ UNCHANGED <<semVars, regVars, cacheVars, fetchVars, cliVars, calcVars,
                   uiVars>>

StaleNext ==
    \/ StaleOpen
    \/ StaleTry
    \/ StaleWake
    \/ StaleUpdate
    \/ StaleInterval
    \/ StaleClose
    \/ StaleStop
    \/ StaleTime

StaleSpecInit ==
    SemIdle /\ RegInit /\ CacheIdle /\ FetchInit /\ CliIdle /\ CalcIdle /\ UiIdle
        /\ LfInit

StaleSpec == StaleSpecInit /\ [][StaleNext]_vars

\* Two processes that call open() on a directory whose lock is free.
RaceSpecInit ==
    SemIdle /\ RegInit /\ CacheIdle /\ FetchInit /\ CliIdle /\ CalcIdle /\ UiIdle
        /\ LfFreeInit

RaceSpec == RaceSpecInit /\ [][StaleNext]_vars

StepsCalculate ==
    /\ Calculate
    /\ UNCHANGED <<semVars, regVars, cacheVars, fetchVars, cliVars, uiVars, lfVars>>

StepsNext == StepsCalculate

StepsSpecInit ==
    SemIdle /\ RegInit /\ CacheIdle /\ FetchInit /\ CliIdle /\ CalcInit /\ UiIdle
        /\ LfIdle

StepsSpec == StepsSpecInit /\ [][StepsNext]_vars

AnyStepsCalculate ==
    /\ CalculateAny
    /\ UNCHANGED <<semVars, regVars, cacheVars, fetchVars, cliVars, uiVars,
                   lfVars>>

AnyStepsNext == AnyStepsCalculate

AnyStepsSpecInit ==
    SemIdle /\ RegInit /\ CacheIdle /\ FetchInit /\ CliIdle /\ CalcAnyInit
        /\ UiIdle /\ LfIdle

AnyStepsSpec == AnyStepsSpecInit /\ [][AnyStepsNext]_vars

ElideSteps ==
    /\ Elide
    /\ UNCHANGED <<semVars, regVars, cacheVars, fetchVars, cliVars, calcVars,
                   lfVars>>

ElideNext == ElideSteps

ElideSpecInit ==
    SemIdle /\ RegInit /\ CacheIdle /\ FetchInit /\ CliIdle /\ CalcIdle
        /\ ElideInit /\ LfIdle

ElideSpec == ElideSpecInit /\ [][ElideNext]_vars

\* The events of the command whose frames are drawn.
UiTaskNames == {"t1"}
UiStatuses == {RUNNING, FAILED, DONE}
UiMessages == {Undefined, "failed"}

\* The command names its tasks, and the steps of a task, in the order of
\* TaskOrder and StepOrder: a name is first referenced after the ones before.
FirstReference(tname, name) ==
    /\ \A k \in 1..Len(TaskOrder) :
          TaskOrder[k] = tname =>
              \A j \in 1..(k - 1) : tasks[TaskOrder[j]] # NoTask
    /\ \A k \in 1..Len(StepOrder) :
          (StepOrder[k] = name /\ tasks[tname] # NoTask) =>
              \A j \in 1..(k - 1) : tasks[tname].steps[StepOrder[j]] # NoStep

\* One tick of the redraw timer with the text renderer.
TextDraw ==
    /\ rendererName = "text"
    /\ RendererDraw
    /\ UNCHANGED <<semVars, regVars, cacheVars, fetchVars, cliVars, calcVars,
                   lfVars>>

TextNext ==
    \/ RegTask
    \/ RegTaskStatus
    \/ RegStep
    \/ RegStepStatus
    \/ TextDraw

TextSpecInit ==
    SemIdle /\ RegInit /\ CacheIdle /\ FetchInit /\ CliIdle /\ CalcIdle /\ UiIdle
        /\ LfIdle

TextSpec == TextSpecInit /\ [][TextNext]_vars

RenderTask ==
    /\ \E name \in UiTaskNames, message \in UiMessages :
          FirstReference(name, NoName) /\ OnTask(name, message)
    /\ UNCHANGED <<semVars, cacheVars, fetchVars, cliVars, calcVars, uiVars, lfVars>>

RenderTaskStatus ==
    /\ \E status \in UiStatuses, name \in UiTaskNames, message \in UiMessages :
          FirstReference(name, NoName) /\ OnTaskStatus(status, name, message)
    /\ UNCHANGED <<semVars, cacheVars, fetchVars, cliVars, calcVars, uiVars, lfVars>>

RenderStep ==
    /\ \E tname \in UiTaskNames, name \in StepNames, message \in UiMessages :
          FirstReference(tname, name) /\ OnStep(tname, name, message)
    /\ UNCHANGED <<semVars, cacheVars, fetchVars, cliVars, calcVars, uiVars, lfVars>>

RenderStepStatus ==
    /\ \E status \in UiStatuses, tname \in UiTaskNames, name \in StepNames,
          message \in UiMessages :
          /\ FirstReference(tname, name)
          /\ OnStepStatus(status, tname, name, message)
    /\ UNCHANGED <<semVars, cacheVars, fetchVars, cliVars, calcVars, uiVars, lfVars>>

\* One tick of the redraw timer (or the final redraw of stop()).
RenderDraw ==
    /\ UIRendererDraw
    /\ UNCHANGED <<semVars, regVars, cacheVars, fetchVars, cliVars, calcVars,
                   lfVars>>

RenderNext ==
    \/ RenderTask
    \/ RenderTaskStatus
    \/ RenderStep
    \/ RenderStepStatus
    \/ RenderDraw

RenderSpecInit ==
    SemIdle /\ RegInit /\ CacheIdle /\ FetchInit /\ CliIdle /\ CalcIdle /\ UiInit
        /\ LfIdle

RenderSpec == RenderSpecInit /\ [][RenderNext]_vars

(***************************************************************************)
(* Semaphore claims                                                        *)
(***************************************************************************)
Running == {j \in JobIds : jobState[j] = "running"}
InFlight == {j \in JobIds : jobState[j] \in {"running", "fulfilled", "rejected"}}
Submitted == {j \in JobIds : jobState[j] # "new"}

\* C1: for a semaphore with integer max = k >= 1, under every interleaving
\* of do() calls and settlements, the number of jobs that were started and
\* have not yet settled never exceeds k.
C1_ConcurrencyBound == Cardinality(Running) <= max

\* The bound is reached while further jobs wait and earlier ones are done.
C1_Witness ==
    /\ max = 2
    /\ Cardinality(Running) = max
    /\ jobs # <<>>
    /\ \E j \in JobIds : jobState[j] = "done"

\* C2: when every started job settles some time after its start, the promise
\* of every submitted do() call eventually settles, and once all submitted
\* calls have settled the queue is empty and active is back to 0.
C2_AllSettle ==
    /\ \A j \in JobIds : (jobState[j] # "new") ~> (promise[j] # Pending)
    /\ []((\A j \in Submitted : promise[j] # Pending)
            => (jobs = <<>> /\ active = 0))

\* All NumJobs calls have settled through a semaphore of one slot, one of
\* them by rejection.
C2_Witness ==
    /\ max = 1
    /\ \A j \in JobIds : promise[j] # Pending
    /\ \E j \in JobIds : promise[j] = ErrorOf(j)

\* C3: the thunks are invoked in submission order (jobs are numbered in the
\* order of their do() calls), whatever the order of the settlements.
C3_FifoStart == \A i \in 1..Len(started) : started[i] = i

\* All jobs were started although job 2 settled before job 1.
C3_Witness ==
    /\ max = 2
    /\ Len(started) = NumJobs
    /\ jobState[1] = "running"
    /\ jobState[2] = "done"

\* C4: a rejecting job rejects only its own do() promise, with its own
\* error; every other promise settles with its own job's outcome; and the
\* rejection gives the slot back (active counts exactly the jobs in flight).
C4_RejectionIsolated ==
    /\ \A p \in JobIds :
          promise[p] = IF jobState[p] # "done" THEN Pending
                       ELSE IF outcome[p] = "rejected" THEN ErrorOf(p)
                       ELSE ResultOf(p)
    /\ active = Cardinality(InFlight)

\* Job 1 rejected, job 2 then fulfilled and a third job was started after
\* the rejection, all through one slot.
C4_Witness ==
    /\ max = 1
    /\ promise[1] = ErrorOf(1)
    /\ promise[2] = ResultOf(2)
    /\ Len(started) >= 3

\* C5: whenever jobs wait, all max slots are taken; and a settlement that is
\* processed while jobs wait starts exactly the head of the queue in the
\* same step.
C5_ImmediateAdmission ==
    /\ [](jobs # <<>> => active = max)
    /\ [][(jobs # <<>> /\ \E j \in JobIds :
               jobState[j] \in {"fulfilled", "rejected"} /\ jobState'[j] = "done")
          => (/\ jobs' = Tail(jobs)
              /\ started' = Append(started, Head(jobs).job)
              /\ jobState'[Head(jobs).job] = "running")]_vars

\* A settlement was processed and jobs still wait behind full slots.
C5_Witness ==
    /\ jobs # <<>>
    /\ active = max
    /\ \E j \in JobIds : jobState[j] = "done"

(***************************************************************************)
(* Registry claims                                                         *)
(***************************************************************************)
StepCount(task) == Cardinality({n \in StepNames : task.steps[n] # NoStep})

\* C6: after every task, task <Status>, step and step <Status> event, every
\* task satisfies stopped + running + failed + skipped + done = steps.size.
C6_CountersSumToSteps ==
    \A t \in TaskNames : tasks[t] # NoTask =>
        tasks[t].stopped + tasks[t].running + tasks[t].failed
          + tasks[t].skipped + tasks[t].done = StepCount(tasks[t])

\* A task with two steps in two different statuses, one of them Failed.
C6_Witness ==
    \E t \in TaskNames :
        /\ tasks[t] # NoTask
        /\ StepCount(tasks[t]) = 2
        /\ tasks[t].failed = 1
        /\ tasks[t].running = 1

(***************************************************************************)
(* Cache and fetchCached claims                                            *)
(***************************************************************************)
Enabled == kind = "Cache" /\ ~ignore
SameFile(a, b) == a.name = b.name /\ a.file = b.file
Completed(i) == log[i].state # "fetching"

\* The response is a 2xx answer carrying a JSON document.
IsDocument(res) ==
    /\ res # NoResponse
    /\ res # TransportError
    /\ res.statusCode >= 200
    /\ res.statusCode < 300
    /\ parse(res.body) # SyntaxError

\* The upstream answers 2xx JSON to whatever call i asks it.
AnswersJson(i) == log[i].response = NoResponse \/ IsDocument(log[i].response)

\* The time to live call i asks for, as far as its response determines it.
TtlOf(i) ==
    IF log[i].response # NoResponse /\ IsDocument(log[i].response)
      THEN expireOf(log[i].expire, parse(log[i].response.body))
    ELSE IF log[i].expire.type = "number" THEN log[i].expire.ttl
    ELSE 0

\* C7: two fetchCached calls for the same (cacheName, fileName) on an enabled
\* cache, the second made after the first returned and within the TTL, with
\* an upstream answering 2xx JSON, make one request in total: the first
\* returns (value, false), the second the same value with wasCached = true.
C7_OneRequestForTwoCalls ==
    \A i, j \in DOMAIN log :
        (/\ Enabled
         /\ i < j
         /\ SameFile(log[i], log[j])
         /\ \A h \in DOMAIN log : (h < j /\ h # i) => ~SameFile(log[h], log[i])
         /\ i \in log[j].after
         /\ Completed(j)
         /\ AnswersJson(i)
         /\ AnswersJson(j)
         /\ log[j].startClock < log[i].endClock + TtlOf(i))
        => (/\ log[i].state = "returned"
            /\ log[i].response # NoResponse
            /\ log[i].value = parse(log[i].response.body)
            /\ ~log[i].wasCached
            /\ log[j].state = "returned"
            /\ log[j].value = log[i].value
            /\ log[j].wasCached
            /\ log[i].issued + log[j].issued = 1)

\* C8: with caching enabled, cache(name, file, data, ttl) with ttl > 0
\* followed immediately by getCache(name, file) returns exactly data and
\* leaves the entry in the index.
C8_RoundTrip ==
    [][(/\ Enabled
        /\ last.op = "cache"
        /\ last.timeout > 0
        /\ last'.op = "getCache"
        /\ last'.name = last.name
        /\ last'.file = last.file)
       => (/\ last'.ret = last.data
           /\ cacheMap'[path(last.name, last.file)] =
                CacheEntry(last.clock, last.clock + last.timeout))]_vars

\* getCache served a payload written in the same second, after time passed.
C8_Witness ==
    /\ Enabled
    /\ last.op = "getCache"
    /\ last.why = "hit"
    /\ last.ret = "d2"
    /\ last.clock > 0
    /\ last.entry.createdAt = last.clock
    /\ last.entry.timeoutAt > last.entry.createdAt

\* C9: for an entry with ttl = timeoutAt - createdAt > 0, getCache never
\* treats it as expired while now < timeoutAt (it serves the payload when the
\* file is there) and always returns null and removes it from the index once
\* now >= timeoutAt + ttl, whatever the jitter.
C9_ExpiryWindow ==
    (/\ Enabled
     /\ last.op = "getCache"
     /\ last.entry # NoEntry
     /\ last.entry.timeoutAt - last.entry.createdAt > 0)
    => LET ttl == last.entry.timeoutAt - last.entry.createdAt
           id == path(last.name, last.file)
       IN /\ last.clock < last.entry.timeoutAt
               => (/\ last.why # "expired"
                   /\ last.existed => (/\ last.why = "hit"
                                       /\ last.ret = files[id]
                                       /\ cacheMap[id] = last.entry))
          /\ last.clock >= last.entry.timeoutAt + ttl
               => (/\ last.ret = Null
                   /\ cacheMap[id] = NoEntry
                   /\ last.existed => last.why = "expired")

\* getCache purged an entry of ttl 2 after timeoutAt + ttl.
C9_Witness ==
    /\ Enabled
    /\ last.op = "getCache"
    /\ last.entry # NoEntry
    /\ last.entry.timeoutAt - last.entry.createdAt = 2
    /\ last.clock >= last.entry.timeoutAt + 2
    /\ last.why = "expired"

\* C10: a fetchCached call that is not served from the cache never throws:
\* a 404, a transport failure, a non-2xx status and a JSON parse failure
\* make it return (null, false), a 2xx JSON document makes it return
\* (value, false); and only such a document is ever written to the cache.
C10_MissNeverThrows ==
    /\ \A i \in DOMAIN log :
          (Completed(i) /\ ~log[i].wasCached)
          => (/\ log[i].state = "returned"
              /\ log[i].response # NoResponse
              /\ log[i].value = IF IsDocument(log[i].response)
                                  THEN parse(log[i].response.body)
                                  ELSE JsonNull)
    /\ \A name \in CacheNames, file \in FileNames :
          cacheMap[path(name, file)] # NoEntry
          => \E i \in DOMAIN log :
                /\ log[i].name = name
                /\ log[i].file = file
                /\ IsDocument(log[i].response)

(***************************************************************************)
(* Lock and shutdown claims                                                *)
(***************************************************************************)
\* The invocations without force that are between start() and the end of
\* stop().
Holders == {i \in Invocations : ~cli[i].force /\ cli[i].state = "started"}

\* C11: at any time at most one invocation without force is between its
\* start() and the end of its stop(), whatever the forced invocations do.
C11_LockExclusive == Cardinality(Holders) <= 1

\* C12: a step of an invocation with force = true leaves the lock file as it
\* was (neither created nor removed) and fails with no error.
C12_ForceBypassesLock ==
    [][\A i \in Invocations :
          (cli[i].force /\ cli'[i] # cli[i]) =>
              /\ lfile' = lfile
              /\ cli'[i].error = NoError]_vars

\* C13: no out value is printed before stop() is called; once stop() was
\* called the timer is cancelled, exactly one final redraw was made and the
\* buffered out values were printed once, in emission order.
C13_FinalRedrawAndFlush ==
    \A i \in Invocations :
        /\ ~cli[i].stopCalled => cli[i].console = <<>>
        /\ cli[i].stopCalled =>
              /\ ~cli[i].interval
              /\ cli[i].final = 1
              /\ cli[i].console =
                    IF cli[i].out = <<>> THEN <<>> ELSE <<cli[i].out>>

(***************************************************************************)
(* Renderer claims                                                         *)
(***************************************************************************)
\* C14: for done + running + waiting >= 8 calculateSteps fails no assertion
\* and shows exactly 8 steps; for (10, 1, 10) it shows 3 done (some hidden),
\* 1 running (none hidden) and 4 waiting (some hidden).
C14_ShownIsMaxSteps ==
    calc.result # NoResult =>
        /\ calc.done + calc.running + calc.waiting >= defaultMaxSteps =>
              /\ calc.result.threw = "none"
              /\ calc.result.showDone + calc.result.showRunning
                   + calc.result.showWaiting = defaultMaxSteps
        /\ (calc.done = 10 /\ calc.running = 1 /\ calc.waiting = 10) =>
              calc.result = Shown("none", 3, TRUE, 1, FALSE, 4, TRUE)

C14_Witness ==
    /\ calc.done = 10 /\ calc.running = 1 /\ calc.waiting = 10
    /\ calc.result # NoResult
    /\ calc.result.hiddenDone /\ calc.result.hiddenWaiting

\* The (1-based) positions at which two strings of one length differ.
Differing(a, b) == {i \in 1..Len(a) : a[i] # b[i]}

\* The terminal column of position at: the escape sequences take no column.
column(line, at) == Len(stripAnsi(SubSeq(line, 1, at - 1)))

\* The lines of the last draw() that are in both frames.
Compared ==
    IF lastDraw = NoDraw \/ lastDraw.threw # "none" THEN {}
    ELSE IF lastDraw.prev = NoOutput THEN {}
    ELSE 1..Min(Len(lastDraw.prev.lines), Len(lastDraw.next))

\* C15: a line of both frames whose length is unchanged and that differs in
\* exactly one character, with or without colour escape sequences, is
\* updated by a cursor move to that column and a write of that character.
C15_DiffMinimality ==
    \A i \in Compared :
        LET stra == lastDraw.prev.lines[i]
            strb == lastDraw.next[i]
            at == CHOOSE k \in Differing(stra, strb) : TRUE
        IN (Len(stra) = Len(strb) /\ Cardinality(Differing(stra, strb)) = 1) =>
              lastDraw.outs[i + 1] =
                  <<sol, right(column(strb, at)), Write(<<strb[at]>>),
                    down(1), sol>>

\* C16: draw() throws nothing, and a line of both frames whose length
\* changed or that differs in more than one character is rewritten in full.
C16_DrawNeverThrows ==
    /\ lastDraw # NoDraw => lastDraw.threw = "none"
    /\ \A i \in Compared :
          LET stra == lastDraw.prev.lines[i]
              strb == lastDraw.next[i]
          IN (Len(stra) # Len(strb) \/ Cardinality(Differing(stra, strb)) > 1)
                => lastDraw.outs[i + 1] =
                      <<sol, eraseEol, Write(strb), down(1), sol>>

(***************************************************************************)
(* Registry event claims                                                   *)
(***************************************************************************)
\* C17: a step or step <Status> event is handled without an error and
\* leaves its task registered with the step in it, whether or not the task
\* was registered before.
C17_StepCreatesTask ==
    (event # NoEvent /\ event.type = "step") =>
        /\ thrown = "none"
        /\ tasks[event.tname] # NoTask
        /\ tasks[event.tname].steps[event.name] # NoStep

Counters(task) ==
    <<task.stopped, task.running, task.failed, task.skipped, task.done>>

Counter(task, status) ==
    CASE status = STOPPED -> task.stopped
      [] status = RUNNING -> task.running
      [] status = FAILED -> task.failed
      [] status = SKIPPED -> task.skipped
      [] status = DONE -> task.done

\* C18: a task <Status> event sets the status of its task to the named
\* status, creating the task if absent, and keeps its steps and counters;
\* every other event keeps the status of every registered task.
C18_TaskStatusIndependent ==
    [][\A t \in TaskNames :
          LET old == IF tasks[t] = NoTask THEN Task(Undefined) ELSE tasks[t]
          IN IF event'.type = "task" /\ event'.status # NoStatus
                  /\ event'.tname = t
               THEN /\ tasks'[t] # NoTask
                    /\ tasks'[t].status = event'.status
                    /\ tasks'[t].steps = old.steps
                    /\ Counters(tasks'[t]) = Counters(old)
               ELSE tasks[t] # NoTask =>
                      /\ tasks'[t] # NoTask
                      /\ tasks'[t].status = tasks[t].status]_vars

\* A task was just marked Done while one of its steps is Running.
C18_Witness ==
    /\ event # NoEvent
    /\ event.type = "task" /\ event.status = DONE
    /\ tasks[event.tname].status = DONE
    /\ \E n \in StepNames :
          /\ tasks[event.tname].steps[n] # NoStep
          /\ tasks[event.tname].steps[n].status = RUNNING

\* C19: a step <Status> event, other than Stopped with a message, on a
\* registered task gives the step the new status and moves one count from
\* the counter of the step's previous status (Stopped and counted first when
\* the step is new) to that of the new status; the other steps, the task's
\* status and the other tasks stay as they were.
C19_StepStatusMovesOneCount ==
    [][\A t \in TaskNames :
          (/\ event'.type = "step" /\ event'.status # NoStatus
           /\ event'.tname = t
           /\ tasks[t] # NoTask
           /\ ~(event'.status = STOPPED /\ event'.message # Undefined)) =>
              LET n == event'.name
                  absent == tasks[t].steps[n] = NoStep
                  oldStat == IF absent THEN STOPPED
                             ELSE tasks[t].steps[n].status
                  before(s) == Counter(tasks[t], s)
                                 + (IF absent /\ s = STOPPED THEN 1 ELSE 0)
              IN /\ tasks'[t].steps[n].status = event'.status
                 /\ \A s \in statusByID :
                       Counter(tasks'[t], s) =
                           before(s) - (IF s = oldStat THEN 1 ELSE 0)
                                     + (IF s = event'.status THEN 1 ELSE 0)
                 /\ \A m \in StepNames \ {n} :
                       tasks'[t].steps[m] = tasks[t].steps[m]
                 /\ tasks'[t].status = tasks[t].status
                 /\ \A u \in TaskNames \ {t} : tasks'[u] = tasks[u]]_vars

\* A step was just set to Done: the counters show it and a second step
\* that is still Stopped.
C19_Witness ==
    /\ event # NoEvent
    /\ event.type = "step" /\ event.status = DONE
    /\ thrown = "none"
    /\ tasks[event.tname].steps[event.name].status = DONE
    /\ tasks[event.tname].done = 1
    /\ tasks[event.tname].stopped = 1

\* C20: a step Stopped event with a message on an existing step changes the
\* message of that step and nothing else of the task: the status of the
\* step and the five counters stay.
C20_StoppedMessageOnly ==
    [][\A t \in TaskNames :
          (/\ event'.type = "step" /\ event'.status = STOPPED
           /\ event'.message # Undefined
           /\ event'.tname = t
           /\ tasks[t] # NoTask
           /\ tasks[t].steps[event'.name] # NoStep) =>
              tasks' = [tasks EXCEPT
                          ![t].steps[event'.name].message = event'.message]]_vars

\* A Running step was just given a message by a step Stopped event.
C20_Witness ==
    /\ event # NoEvent
    /\ event.type = "step" /\ event.status = STOPPED
    /\ event.message = "msg"
    /\ thrown = "none"
    /\ tasks[event.tname].steps[event.name].status = RUNNING
    /\ tasks[event.tname].steps[event.name].message = "msg"
    /\ tasks[event.tname].running = 1

C22_GetCachePurges ==
    [][(last'.op = "getCache" /\ kind = "Cache" /\ ~ignore) =>
        LET id == path(last'.name, last'.file)
            entry == cacheMap[id]
            ttl == entry.timeoutAt - entry.createdAt
            purged == /\ last'.ret = Null
                      /\ cacheMap' = [cacheMap EXCEPT ![id] = NoEntry]
                      /\ hasChanged'
            served == /\ last'.ret = files[id]
                      /\ cacheMap' = cacheMap
                      /\ hasChanged' = hasChanged
                      /\ files' = files
        IN IF entry = NoEntry
             THEN /\ last'.ret = Null
                  /\ cacheMap' = cacheMap
                  /\ hasChanged' = hasChanged
                  /\ files' = files
           ELSE IF files[id] = NoFile THEN purged
           ELSE IF ttl # 0 /\ clock >= entry.timeoutAt + ttl - 1 THEN purged
           ELSE IF ttl = 0 \/ clock < entry.timeoutAt THEN served
           ELSE purged \/ served]_vars

\* An entry loaded from the index file has just been purged as expired, and
\* the index, clean after open(), is dirty.
C22_Witness ==
    /\ last.op = "getCache" /\ last.why = "expired"
    /\ last.entry = CacheEntry(0, 1)
    /\ cacheMap[path(last.name, last.file)] = NoEntry
    /\ hasChanged
    /\ cacheInfoFile.state = "json"
    /\ cacheInfoFile.entries # {}

\* C23: an entry written with ttl = 0 (timeoutAt = createdAt) is never
\* purged as expired: at any later time getCache on an enabled cache returns
\* its payload and keeps the entry and the payload file, as long as the
\* payload file exists.
C23_ZeroTtlNeverExpires ==
    [][(/\ last'.op = "getCache"
        /\ Enabled
        /\ cacheMap[path(last'.name, last'.file)] # NoEntry
        /\ cacheMap[path(last'.name, last'.file)].timeoutAt =
             cacheMap[path(last'.name, last'.file)].createdAt
        /\ files[path(last'.name, last'.file)] # NoFile) =>
           /\ last'.ret = files[path(last'.name, last'.file)]
           /\ cacheMap' = cacheMap
           /\ files' = files]_vars

\* An entry written with ttl = 0 was served MaxClock seconds later.
C23_Witness ==
    /\ last.op = "getCache" /\ last.why = "hit"
    /\ last.entry # NoEntry
    /\ last.entry.timeoutAt = last.entry.createdAt
    /\ last.clock = last.entry.createdAt + MaxClock
    /\ last.ret \in Data

\* What open() on a fresh Cache loads from the index file.
Reloaded(info) == readCacheInfo([id \in Ids |-> NoEntry], info).map

\* C24: close() writes the index file exactly when hasChanged is set, and
\* hasChanged is set exactly by a cache() that stored an entry or a getCache
\* that purged one since the index was last loaded or written (a clean
\* index equals what the file holds).  A write leaves the file holding the
\* current version and the entries of cacheMap, which a fresh Cache reloads
\* unchanged, and resets hasChanged, so that a close() right after a
\* close() writes nothing.
C24_CloseWritesIffDirty ==
    [][/\ last'.op = "close" =>
            /\ last'.ret = hasChanged
            /\ ~hasChanged'
            /\ IF hasChanged
                 THEN /\ cacheInfoFile' =
                            Info(thisVersion, cacheEntries(cacheMap))
                      /\ Reloaded(cacheInfoFile') = cacheMap
                 ELSE cacheInfoFile' = cacheInfoFile
            /\ last.op = "close" => ~last'.ret
       /\ (hasChanged' /\ ~hasChanged) =>
            \/ last'.op = "cache" /\ last'.ret = TRUE
            \/ last'.op = "getCache" /\ cacheMap' # cacheMap
       /\ (last'.op = "cache" /\ last'.ret = TRUE) => hasChanged'
       /\ (last'.op = "getCache" /\ cacheMap' # cacheMap) => hasChanged'
       /\ (Opened' /\ ~hasChanged') => cacheMap' = Reloaded(cacheInfoFile')
      ]_vars

\* A run stored an entry for a/c and closed; the next run's open() has
\* loaded that entry from the index file (no run found it there at first).
C24_Witness ==
    /\ last.op = "open" /\ last.why = "loaded"
    /\ ~hasChanged
    /\ cacheMap[path("a", "c")] # NoEntry
    /\ files[path("a", "c")] = "d2"
    /\ cacheMap = Reloaded(cacheInfoFile)

\* C25: open() completes normally whatever the index file holds, and when
\* the file is absent, unreadable, corrupt or of another version the cache
\* starts empty.
C25_OpenNeverFails ==
    last.op = "open" =>
        /\ last.why \notin {"EACCES", "SyntaxError"}
        /\ (cacheInfoFile.state # "json"
              \/ cacheInfoFile.version # thisVersion) =>
                 cacheMap = [id \in Ids |-> NoEntry]

\* C26: with caching disabled, a Cache with ignore set and a NullCache
\* behave alike: cache() returns false, getCache() returns null, and no
\* entry, no payload file and no dirty mark ever appears.
C26_DisabledVariantsAgree ==
    (kind = "NullCache" \/ ignore) =>
        /\ last.op = "cache" => last.ret = FALSE
        /\ last.op = "getCache" => last.ret = Null
        /\ cacheMap = [id \in Ids |-> NoEntry]
        /\ files = [id \in Ids |-> NoFile]
        /\ ~hasChanged

(***************************************************************************)
(* LockFile claims                                                         *)
(***************************************************************************)
\* C27: while another process holds the lock and heartbeats, a test of
\* tryAcquire never finds the lock stale, and an open() lasts MAX_TRIES
\* sleeps of a second at most, returning false right after the last one;
\* and an open() called after the holder stopped heartbeating (the file
\* still there) does not return false: it acquires the lock by its
\* MAX_TRIES-th test.
C27_StalenessProtocol ==
    [][\A q \in Processes : \A p \in Processes \ {q} :
          /\ (lf[p].state = "holding" /\ lf[q].state = "trying") =>
                lf'[q].state # "acquired"
          /\ lf'[q].state \in {"trying", "sleeping"} =>
                /\ lf'[q].tries < MAX_TRIES
                /\ time' <= lf'[q].since + MAX_TRIES * A_SECOND
          /\ (lf[q].state = "sleeping" /\ lf'[q].state = "failed") =>
                /\ lf'[q].tries = MAX_TRIES
                /\ time = lf[q].since + MAX_TRIES * A_SECOND
                /\ ~(lf[p].state = "stopped" /\ lf[p].since <= lf[q].since)
      ]_vars

\* The holder stopped right after a heartbeat; an open() called at that
\* moment found the lock stale at its fourth test and holds it now.
C27_Witness ==
    /\ lf["p"].state = "stopped"
    /\ lf["q"].state = "holding"
    /\ lf["q"].since = lf["p"].since
    /\ lf["q"].tries = MAX_TRIES - 1
    /\ lock = Stat(lf["q"].since + (MAX_TRIES - 1) * A_SECOND)


(***************************************************************************)
(* TextRenderer claims                                                     *)
(***************************************************************************)
\* The status the event's task or step has in a registry (NoStatus when it
\* is not registered).
StatusIn(ts, e) ==
    IF ts[e.tname] = NoTask THEN NoStatus
    ELSE IF e.type = "task" THEN ts[e.tname].status
    ELSE IF ts[e.tname].steps[e.name] = NoStep THEN NoStatus
    ELSE ts[e.tname].steps[e.name].status

\* C28: with the text renderer, a task <Status> or step <Status> event whose
\* status is Running, Failed, Skipped or Done and which changes the status
\* of its task or step appends exactly one log line naming the task (or
\* task:step) and the outcome; every other event (a plain event, a Stopped
\* event, a status event that leaves the status as it was) appends nothing,
\* and draw() writes nothing.
C28_OneLinePerTransition ==
    [][IF events' # events
         THEN LET e == event'
              IN IF /\ e.status \in {RUNNING, FAILED, SKIPPED, DONE}
                    /\ StatusIn(tasks', e) # StatusIn(tasks, e)
                   THEN logged' = IF e.type = "task"
                                    THEN logTask(e.tname, e.status)
                                    ELSE logStep(e.tname, e.name, e.status)
                   ELSE logged' = <<>>
         ELSE /\ lastDraw'.outs = <<>>
              /\ logged' = logged]_vars


(***************************************************************************)
(* Terminal claims                                                         *)
(***************************************************************************)
\* C29: after every draw() of the live renderer that returned, whatever the
\* lengths of the previous and of the new frame (longer, shorter, equal,
\* empty), the cursor is at column 0 of the row just below the last line of
\* the new frame, the frame beginning on the row where the first draw began,
\* and no row from there on shows anything of the previous frame.
C29_CursorBelowFrame ==
    (lastDraw # NoDraw /\ lastDraw.threw = "none") =>
        /\ terminal.row = Len(lastDraw.next)
        /\ terminal.col = 0
        /\ \A r \in ScreenRows :
               r >= Len(lastDraw.next) => terminal.screen[r] = <<>>


(***************************************************************************)
(* Elision claims                                                          *)
(***************************************************************************)
\* The positions of the steps of elided.steps with a status in set, and
\* the lines of the result that are placeholders with the glyph of status.
GroupOf(set) == {i \in 1..Len(elided.steps) : elided.steps[i] \in set}
ShownOf(set) ==
    {elided.result.lines[k].at : k \in 1..Len(elided.result.lines)} \cap GroupOf(set)
MoreOf(status) ==
    {k \in 1..Len(elided.result.lines) :
        /\ elided.result.lines[k].more >= 0
        /\ elided.result.lines[k].glyph = prefix(status)}

C38_PlaceholderCount ==
    (elided.result # NoResult /\ elided.result.threw = "none") =>
        /\ \A k \in MoreOf(DONE) :
               Cardinality(ShownOf({FAILED, SKIPPED, DONE}))
                   + elided.result.lines[k].more
                 = Cardinality(GroupOf({FAILED, SKIPPED, DONE}))
        /\ \A k \in MoreOf(RUNNING) :
               Cardinality(ShownOf({RUNNING})) + elided.result.lines[k].more
                 = Cardinality(GroupOf({RUNNING}))
        /\ \A k \in MoreOf(STOPPED) :
               Cardinality(ShownOf({STOPPED})) + elided.result.lines[k].more
                 = Cardinality(GroupOf({STOPPED}))


\* C39: for every maxSteps >= 1 and all numbers of done, running and waiting
\* steps whose sum is at least maxSteps, calculateSteps returns show counts
\* between 0 and the group's count, and each hidden flag is true exactly
\* when the show count is smaller than the count.
C39_ShowCountsInRange ==
    (calc.result # NoResult
       /\ calc.done + calc.running + calc.waiting >= calc.maxSteps) =>
        /\ calc.result.threw = "none"
        /\ calc.result.showDone \in 0..calc.done
        /\ calc.result.showRunning \in 0..calc.running
        /\ calc.result.showWaiting \in 0..calc.waiting
        /\ calc.result.hiddenDone = (calc.result.showDone < calc.done)
        /\ calc.result.hiddenRunning = (calc.result.showRunning < calc.running)
        /\ calc.result.hiddenWaiting = (calc.result.showWaiting < calc.waiting)


\* The number of registered steps of a task whose status is in set.
StepsWith(task, set) ==
    Cardinality({n \in StepNames :
                    task.steps[n] # NoStep /\ task.steps[n].status \in set})

\* C32: in every reachable registry, each of the five counters of a task is
\* the number of its steps that have that status (so none is negative), and
\* so the three assertions of getOutput hold: the steps filtered as done
\* (Failed, Skipped, Done), waiting and running are as many as
\* failed + skipped + done, stopped and running.
C32_CountersCountSteps ==
    \A t \in TaskNames :
        tasks[t] # NoTask =>
            /\ \A s \in {STOPPED, RUNNING, FAILED, SKIPPED, DONE} :
                   Counter(tasks[t], s) = StepsWith(tasks[t], {s})
            /\ StepsWith(tasks[t], {FAILED, SKIPPED, DONE}) =
                   tasks[t].failed + tasks[t].skipped + tasks[t].done
            /\ StepsWith(tasks[t], {STOPPED}) = tasks[t].stopped
            /\ StepsWith(tasks[t], {RUNNING}) = tasks[t].running

\* A task with one Skipped and one Failed step, the second one set by the
\* last event: skipped = 1, failed = 1 and the other counters 0.
C32_Witness ==
    /\ event # NoEvent
    /\ event.type = "step" /\ event.status = FAILED
    /\ thrown = "none"
    /\ StepsWith(tasks[event.tname], {SKIPPED}) = 1
    /\ tasks[event.tname].steps[event.name].status = FAILED
    /\ Counters(tasks[event.tname]) = <<0, 0, 1, 1, 0>>


\* C33: after every draw() of the live renderer that returned, the rows of
\* the terminal above the cursor show the new frame line for line (its
\* characters without the colour sequences), whatever the previous frame
\* was and whether or not the lines are coloured.
C33_TerminalShowsFrame ==
    (lastDraw # NoDraw /\ lastDraw.threw = "none") =>
        \A i \in 1..Len(lastDraw.next) :
            terminal.screen[terminal.row - Len(lastDraw.next) + i - 1]
                = stripAnsi(lastDraw.next[i])


\* The processes whose open() returned true (or is about to: tryAcquire
\* returned true) and that have not closed or stopped since.
Owners == {p \in Processes : lf[p].state \in {"acquired", "holding"}}

\* C31: whatever the interleaving of two processes that call open() on a
\* directory whose lock file is missing or stale, at most one of them
\* acquires the lock and holds it.
C31_OneHolder == Cardinality(Owners) <= 1


\* C35: a completed cache write is durable under overlap.  When a call
\* cache(name, file, data, ttl) has returned true, no other cache() call
\* names the key, and a getCache(name, file) made after that return comes
\* back before the entry's timeoutAt, then it returns data, whatever other
\* getCache calls ran while the cache() call was in flight.
C35_WriteDurableUnderOverlap ==
    \A w \in Callers, r \in Callers :
        ( /\ calls[w].op = "cache"
          /\ calls[w].pc = "returned"
          /\ calls[w].ret = TRUE
          /\ calls[r].op = "getCache"
          /\ calls[r].pc \in {"returned", "ENOENT"}
          /\ w \in calls[r].after
          /\ calls[r].name = calls[w].name
          /\ calls[r].file = calls[w].file
          /\ calls[r].endClock < calls[w].entry.timeoutAt
          /\ \A o \in Callers \ {w} :
                calls[o].op = "cache" =>
                    <<calls[o].name, calls[o].file>>
                        # <<calls[w].name, calls[w].file>> )
        => /\ calls[r].pc = "returned"
           /\ calls[r].ret = calls[w].data


\* C36: two fetchCached calls for the same (cacheName, fileName) that
\* overlap, the second made before the first has completed and so before
\* the first has written the cache, issue at most one network request
\* between them.
C36_OneRequestForOverlappingCalls ==
    \A i \in DOMAIN log, j \in DOMAIN log :
        ( /\ i < j
          /\ log[i].name = log[j].name
          /\ log[i].file = log[j].file
          /\ i \notin log[j].after )
        => log[i].issued + log[j].issued <= 1


\* C37: an invocation that acquired the lock removes the lock file before
\* its process ends, on every exit path: the lock file exists only while
\* an invocation without force is between its start() and the end of its
\* process, so no later invocation meets the lock of an owner that is gone.
C37_LockRemovedOnExit ==
    lfile => \E i \in Invocations : ~cli[i].force /\ cli[i].state = "started"


\* The status of a step of the current task, Stopped while it is not
\* registered.
StatusOf(ts, name) ==
    IF ts[current].steps[name] = NoStep THEN STOPPED
    ELSE ts[current].steps[name].status

BatchSteps == {StepOrder[j] : j \in Batch}

\* C34: while runParallelSteps drives the registry, the running counter of
\* the task never exceeds the semaphore's max; the call returns (its
\* Promise.all settles) only when every step of the batch is Done or
\* Failed; and every change of a step's status is Stopped -> Running,
\* Running -> Done or Running -> Failed, made for one step at a time, so a
\* step that fails leaves the others as they are.
C34_ParallelSteps ==
    /\ [](tasks[current].running <= max)
    /\ [](allSettled =>
            \A name \in BatchSteps : StatusOf(tasks, name) \in {DONE, FAILED})
    /\ [][ /\ \A name \in BatchSteps :
                \/ StatusOf(tasks', name) = StatusOf(tasks, name)
                \/ <<StatusOf(tasks, name), StatusOf(tasks', name)>> \in
                      {<<STOPPED, RUNNING>>, <<RUNNING, DONE>>,
                       <<RUNNING, FAILED>>}
           /\ Cardinality({name \in BatchSteps :
                  StatusOf(tasks', name) # StatusOf(tasks, name)}) <= 1 ]_vars

\* The call has returned through a semaphore of one slot: the first step
\* failed, and the second was started after it and is Done.
C34_Witness ==
    /\ max = 1
    /\ allSettled
    /\ StatusOf(tasks, StepOrder[1]) = FAILED
    /\ StatusOf(tasks, StepOrder[2]) = DONE
    /\ started = <<1, 2>>


\* The status of step name of task t in the registry ts, Stopped while the
\* task or the step is not registered.
StatusAt(ts, t, name) ==
    IF ts[t] = NoTask THEN STOPPED
    ELSE IF ts[t].steps[name] = NoStep THEN STOPPED
    ELSE ts[t].steps[name].status

\* Task t is Running and none of its steps is: runSeriesSteps has returned
\* to runTasks.
Returning(t) ==
    /\ tasks[t] # NoTask
    /\ tasks[t].status = RUNNING
    /\ \A name \in StepNames : StatusAt(tasks, t, name) # RUNNING

\* C40: runSeriesSteps runs the steps one at a time in the given order (a
\* step is started only when all steps before it are Done, and one step
\* is Running at most); a step whose function rejects is marked Failed
\* together with an error event (two events are handled), and no later
\* step of the task is started: they stay Stopped; and when
\* runSeriesSteps has returned, with or without a failed step, runTasks
\* marks the task Done and starts the next task and its first step.
C40_SeriesSteps ==
    /\ [](\A t \in TaskNames : \A k \in DOMAIN StepOrder :
            StatusAt(tasks, t, StepOrder[k]) # STOPPED =>
                \A h \in 1..(k - 1) : StatusAt(tasks, t, StepOrder[h]) = DONE)
    /\ [](Cardinality({<<t, name>> \in TaskNames \X StepNames :
                          StatusAt(tasks, t, name) = RUNNING}) <= 1)
    /\ [](\A t \in TaskNames : \A k \in DOMAIN StepOrder :
            StatusAt(tasks, t, StepOrder[k]) = FAILED =>
                \A h \in (k + 1)..Len(StepOrder) :
                    StatusAt(tasks, t, StepOrder[h]) = STOPPED)
    /\ [][\A t \in TaskNames : \A name \in StepNames :
            ( /\ StatusAt(tasks, t, name) # FAILED
              /\ StatusAt(tasks', t, name) = FAILED )
            => /\ StatusAt(tasks, t, name) = RUNNING
               /\ events' = events + 2
               /\ event' = Event("step", FAILED, t, name, Undefined)
               /\ Returning(t)' ]_vars
    /\ [][\A i \in DOMAIN TaskOrder :
            Returning(TaskOrder[i])
            => /\ tasks'[TaskOrder[i]].status = DONE
               /\ i < Len(TaskOrder) =>
                    /\ tasks'[TaskOrder[i + 1]].status = RUNNING
                    /\ StatusAt(tasks', TaskOrder[i + 1], StepOrder[1])
                         = RUNNING ]_vars

\* runTasks has ended: the first step of the first task failed and its
\* second step was never started, yet the task is Done and the second
\* task has run both its steps.
C40_Witness ==
    /\ \A t \in TaskNames : tasks[t] # NoTask /\ tasks[t].status = DONE
    /\ StatusAt(tasks, TaskOrder[1], StepOrder[1]) = FAILED
    /\ StatusAt(tasks, TaskOrder[1], StepOrder[2]) = STOPPED
    /\ \A name \in StepNames : StatusAt(tasks, TaskOrder[2], name) = DONE

=============================================================================
